---- MODULE Spec2Model ----
(***************************************************************************)
(* Lifelink: donor matching, notification fan-out, the authorization       *)
(* helpers, the server routes, and the tables behind their row policies.   *)
(*                                                                         *)
(*   SpecDonors     getCompatibleDonors and POST /find-donors over the     *)
(*                  profiles table                                         *)
(*   Spec           the notification writer, reader and mark-read over the *)
(*                  key-value store, write by write                        *)
(*   SpecAuth       the authorization helpers of AuthProvider and of the   *)
(*                  authorization utilities, over every (user, profile)    *)
(*   SpecServer     the routes of the server behind authenticateUser       *)
(*   SpecMarks      the writers of the store with two mark-read            *)
(*                  invocations at a time                                  *)
(*   SpecRequests   blood_requests under its row policies and              *)
(*                  verify-blood-request                                   *)
(*   SpecHospitals  hospitals under its row policies: the application form *)
(*                  and the approve and reject requests                    *)
(*   SpecLogin      sign-up and sign-in of the Login page and the profile  *)
(*                  row they create                                        *)
(*   SpecSetup      checkDatabaseSetup over every combination of probe     *)
(*                  answers, and the screen DatabaseSetupCheck renders     *)
(*   SpecFanOut     notify-donors invocations whose store writes           *)
(*                  interleave                                             *)
(*   SpecProvider   AuthProvider: session events, sign-out and the         *)
(*                  profile fetches in flight; SpecProviderLive adds       *)
(*                  that every call settles                                *)
(*   SpecWidget     NotificationSystem: polls, clicks and mark-read        *)
(*                  answers in any order                                   *)
(*   SpecListing    fetchBloodRequests over every context and filter       *)
(*   SpecSignIn     the sign-in of the Login page inside AuthProvider,     *)
(*                  with its role check and the redirect effect            *)
(***************************************************************************)
EXTENDS Integers, Sequences, FiniteSets, TLC

VARIABLES
    profiles,      \* profiles table: row number -> row
    compatCall,    \* last direct evaluation of getCompatibleDonors: [arg, ret]
    findResp,      \* last answer of POST /find-donors
    authContext,   \* the (user, profile) pair handed to the helpers
    hospitalArg,   \* the hospitalId argument
    authCall,      \* last evaluation of an authorization helper
    kv,            \* key-value store: key -> stored value
    clock,         \* wall clock (milliseconds)
    uuidCount,     \* identifiers minted so far by crypto.randomUUID()
    notifyCalls,   \* POST /notify-donors invocations: call number -> call
    markCall,      \* the PUT /notifications/:id/read invocation in flight
    resp,          \* the answer sent by the step just taken, if it sent one
    httpRequest,   \* the HTTP request the server is serving: [route, header]
    profileTable,  \* public.profiles by user id: id -> [role, hospital_id]
    otherMarkCall, \* a second PUT /notifications/:id/read in flight
    blood_requests, \* public.blood_requests: id -> row
    verifyCall,    \* the verify-blood-request invocation in flight
    hospitals,     \* public.hospitals: id -> row
    hospitalForm,  \* HospitalApplication: the license field, error, submitted
    authServer,    \* the auth service: e-mail confirmation setting, accounts
    login,         \* the browser: session, error on the Login page, insert sent
    setupCheck,    \* DatabaseSetupCheck: probes answered, isChecking, dbStatus
    provider,      \* AuthProvider: session, user, profile, loading, fetches
    inbox,         \* the signed-in donor's notifications at the server
    widget,        \* NotificationSystem: list shown, unreadCount, calls in flight
    listing,       \* fetchBloodRequests: the filters and what the call returned
    signInFlow     \* App and Login: the page shown and the sign-in under way

donorVars == <<profiles, compatCall, findResp>>
authVars == <<authContext, hospitalArg, authCall>>
notifVars == <<kv, clock, uuidCount, notifyCalls, markCall, resp>>
serverVars == <<httpRequest, profileTable>>
requestVars == <<blood_requests, verifyCall>>
hospitalVars == <<hospitals, hospitalForm>>
loginVars == <<authServer, login>>
setupVars == <<setupCheck>>
widgetVars == <<inbox, widget>>
clientVars == <<provider, widgetVars, listing, signInFlow>>
uiVars == <<hospitalVars, loginVars, setupVars, clientVars>>
restVars == <<serverVars, otherMarkCall, requestVars, uiVars>>
vars == <<profiles, compatCall, findResp, authContext, hospitalArg, authCall,
          kv, clock, uuidCount, notifyCalls, markCall, resp,
          httpRequest, profileTable, otherMarkCall,
          blood_requests, verifyCall, hospitals, hospitalForm,
          authServer, login, setupCheck, provider, inbox, widget, listing,
          signInFlow>>
\* everything AuthProvider and NotificationSystem leave alone
appVars == <<donorVars, authVars, notifVars, serverVars, otherMarkCall,
             requestVars, hospitalVars, loginVars, setupVars, listing,
             signInFlow>>
\* everything the sign-in on the Login page leaves alone
flowRest == <<widgetVars, listing, donorVars, authVars, notifVars, serverVars,
              otherMarkCall, requestVars, hospitalVars, loginVars, setupVars>>

----------------------------------------------------------------------------
(* Bounds *)

NumProfiles == 1
MaxNotifyCalls == 2     \* notify-donors invocations in one behaviour
MaxInFlight == 2        \* fetchProfile requests of one user in flight
MaxPolls == 2           \* notification fetches in flight
MaxMarks == 2           \* mark-read requests of one notification in flight

----------------------------------------------------------------------------
(* JavaScript values needed by the handlers *)

Undefined == [type |-> "undefined", elems |-> <<>>]
JsArray(s) == [type |-> "array", elems |-> s]
JsFunction == [type |-> "function", elems |-> <<>>]
JsObject == [type |-> "object", elems |-> <<>>]

\* every value of the model except undefined is truthy (arrays, functions
\* and objects are truthy, also when empty)
Truthy(v) == v.type # "undefined"

Range(s) == {s[i] : i \in 1..Len(s)}

\* the empty string is the only falsy string
StrTruthy(s) == s # ""

----------------------------------------------------------------------------
(* Schema enumerations *)

BloodGroupEnum == {"A+", "A-", "B+", "B-", "AB+", "AB-", "O+", "O-", "Not Set"}
CanonicalBloodTypes == BloodGroupEnum \ {"Not Set"}
AvailabilityEnum == {"Available", "Unavailable", "Recently Donated"}
UserRoleEnum == {"individual", "hospital_admin", "platform_admin"}

----------------------------------------------------------------------------
(* Authorization helpers *)

JsNull == [t |-> "null", s |-> ""]
JsUndefined == [t |-> "undefined", s |-> ""]
JsString(x) == [t |-> "string", s |-> x]
JsUser(x) == [t |-> "object", s |-> x]

\* truthiness of null, undefined, a string or an object
ValueTruthy(v) ==
    CASE v.t \in {"null", "undefined"} -> FALSE
      [] v.t = "string" -> v.s # ""
      [] OTHER -> TRUE

\* === on these values: same type and same content
StrictEquals(a, b) == a = b

HospitalIds == {"h1", "h2"}

NullProfile == [isNull |-> TRUE, role |-> "", hospital_id |-> JsNull]

\* Profile rows as the helpers read them: role and hospital_id
AuthProfiles ==
    [isNull : {FALSE},
     role : UserRoleEnum,
     hospital_id : {JsNull} \cup {JsString(h) : h \in HospitalIds}]

AuthContexts ==
    [user : {JsNull, JsUser("u1")},
     profile : {NullProfile} \cup AuthProfiles]

SignedOutContext == [user |-> JsNull, profile |-> NullProfile]

\* hospitalId: string for canAccessHospital, string or absent for
\* canManageBloodRequests
HospitalIdStrings == {JsString(h) : h \in HospitalIds}
OptionalHospitalIds == HospitalIdStrings \cup {JsUndefined}

NoAuthCall == [fn |-> "", impl |-> "", roles |-> {}, ret |-> FALSE]

\* canAccessHospital without the affiliation comparison
ProviderCanAccessAnyHospital(ctx, hospitalId) ==
    IF ctx.profile.isNull THEN FALSE
    ELSE ctx.profile.role \in {"platform_admin", "hospital_admin"}

\* AuthProvider.tsx canAccessHospital
ProviderCanAccessHospital(ctx, hospitalId) ==
    IF ctx.profile.isNull THEN FALSE
    ELSE IF ctx.profile.role = "platform_admin" THEN TRUE
    ELSE IF ctx.profile.role = "hospital_admin"
         THEN StrictEquals(ctx.profile.hospital_id, hospitalId)
    ELSE FALSE

\* AuthProvider.tsx canManageBloodRequests
ProviderCanManageBloodRequests(ctx, hospitalId) ==
    IF ctx.profile.isNull THEN FALSE
    ELSE IF ctx.profile.role = "platform_admin" THEN TRUE
    ELSE IF ctx.profile.role = "hospital_admin"
         THEN IF ValueTruthy(hospitalId)
              THEN StrictEquals(ctx.profile.hospital_id, hospitalId)
              ELSE TRUE
    ELSE FALSE

\* authorization utilities canAccessHospital
UtilsCanAccessHospital(ctx, hospitalId) ==
    IF ~ValueTruthy(ctx.user) \/ ctx.profile.isNull THEN FALSE
    ELSE IF ctx.profile.role = "platform_admin" THEN TRUE
    ELSE IF ctx.profile.role = "hospital_admin"
         THEN StrictEquals(ctx.profile.hospital_id, hospitalId)
    ELSE FALSE

\* authorization utilities canManageBloodRequests
UtilsCanManageBloodRequests(ctx, hospitalId) ==
    IF ~ValueTruthy(ctx.user) \/ ctx.profile.isNull THEN FALSE
    ELSE IF ctx.profile.role = "platform_admin" THEN TRUE
    ELSE IF ctx.profile.role = "hospital_admin" /\ ValueTruthy(hospitalId)
         THEN StrictEquals(ctx.profile.hospital_id, hospitalId)
    ELSE FALSE

\* AuthProvider.tsx hasRole: authContext.profile?.role === role
ProviderHasRole(ctx, role) ==
    IF ctx.profile.isNull THEN FALSE ELSE ctx.profile.role = role

\* AuthProvider.tsx hasAnyRole
ProviderHasAnyRole(ctx, roles) ==
    IF ctx.profile.isNull THEN FALSE ELSE ctx.profile.role \in roles

\* authorization utilities hasRole
UtilsHasRole(ctx, requiredRole) ==
    IF ~ValueTruthy(ctx.user) \/ ctx.profile.isNull THEN FALSE
    ELSE ctx.profile.role = requiredRole

\* authorization utilities hasAnyRole
UtilsHasAnyRole(ctx, requiredRoles) ==
    IF ~ValueTruthy(ctx.user) \/ ctx.profile.isNull THEN FALSE
    ELSE ctx.profile.role \in requiredRoles

\* hasRole(role) of either implementation; the argument is kept in roles
CallHasRole(impl) ==
    /\ \E role \in UserRoleEnum :
         authCall' = [fn |-> "hasRole", impl |-> impl, roles |-> {role},
                      ret |-> IF impl = "provider"
                              THEN ProviderHasRole(authContext, role)
                              ELSE UtilsHasRole(authContext, role)]
    /\ UNCHANGED <<authContext, hospitalArg>>
    /\ UNCHANGED <<donorVars, notifVars, restVars>>

\* hasAnyRole(roles) of either implementation; the array is read through
\* includes() only, so it is kept as the set of its elements
CallHasAnyRole(impl) ==
    /\ \E roles \in SUBSET UserRoleEnum :
         authCall' = [fn |-> "hasAnyRole", impl |-> impl, roles |-> roles,
                      ret |-> IF impl = "provider"
                              THEN ProviderHasAnyRole(authContext, roles)
                              ELSE UtilsHasAnyRole(authContext, roles)]
    /\ UNCHANGED <<authContext, hospitalArg>>
    /\ UNCHANGED <<donorVars, notifVars, restVars>>

CallProviderCanAccessHospital ==
    /\ hospitalArg \in HospitalIdStrings
    /\ authCall' = [fn |-> "canAccessHospital", impl |-> "provider", roles |-> {},
                    ret |-> ProviderCanAccessHospital(authContext, hospitalArg)]
    /\ UNCHANGED <<authContext, hospitalArg>>
    /\ UNCHANGED <<donorVars, notifVars, restVars>>

CallUtilsCanAccessHospital ==
    /\ hospitalArg \in HospitalIdStrings
    /\ authCall' = [fn |-> "canAccessHospital", impl |-> "utils", roles |-> {},
                    ret |-> UtilsCanAccessHospital(authContext, hospitalArg)]
    /\ UNCHANGED <<authContext, hospitalArg>>
    /\ UNCHANGED <<donorVars, notifVars, restVars>>

CallProviderCanManageBloodRequests ==
    /\ authCall' = [fn |-> "canManageBloodRequests", impl |-> "provider", roles |-> {},
                    ret |-> ProviderCanManageBloodRequests(authContext, hospitalArg)]
    /\ UNCHANGED <<authContext, hospitalArg>>
    /\ UNCHANGED <<donorVars, notifVars, restVars>>

CallUtilsCanManageBloodRequests ==
    /\ authCall' = [fn |-> "canManageBloodRequests", impl |-> "utils", roles |-> {},
                    ret |-> UtilsCanManageBloodRequests(authContext, hospitalArg)]
    /\ UNCHANGED <<authContext, hospitalArg>>
    /\ UNCHANGED <<donorVars, notifVars, restVars>>

----------------------------------------------------------------------------
(* getCompatibleDonors *)

\* the object literal `compatibility`: its own properties
compatibility ==
    [r \in CanonicalBloodTypes |->
        CASE r = "A+"  -> <<"A+", "A-", "O+", "O-">>
          [] r = "A-"  -> <<"A-", "O-">>
          [] r = "B+"  -> <<"B+", "B-", "O+", "O-">>
          [] r = "B-"  -> <<"B-", "O-">>
          [] r = "AB+" -> <<"A+", "A-", "B+", "B-", "AB+", "AB-", "O+", "O-">>
          [] r = "AB-" -> <<"A-", "B-", "AB-", "O-">>
          [] r = "O+"  -> <<"O+", "O-">>
          [] r = "O-"  -> <<"O-">>]

\* property names every object literal inherits from Object.prototype
\* (the ones the model's inputs use)
InheritedFunctionKeys == {"constructor", "toString"}
InheritedObjectKeys == {"__proto__"}

\* compatibility[key]: own property, else the inherited one, else undefined
PropertyLookup(key) ==
    IF key \in DOMAIN compatibility THEN JsArray(compatibility[key])
    ELSE IF key \in InheritedFunctionKeys THEN JsFunction
    ELSE IF key \in InheritedObjectKeys THEN JsObject
    ELSE Undefined

\* compatibility[recipientBloodType] || []
getCompatibleDonors(recipientBloodType) ==
    LET v == PropertyLookup(recipientBloodType)
    IN  IF Truthy(v) THEN v ELSE JsArray(<<>>)

----------------------------------------------------------------------------
(* POST /find-donors *)

ProfileRow ==
    [role : UserRoleEnum,
     profile_complete : BOOLEAN,
     availability_status : AvailabilityEnum,
     blood_group : {"A+", "O-", "Not Set"}]

\* request bodies: blood_group_needed as sent by the caller
BloodGroupInputs ==
    CanonicalBloodTypes \cup {"Not Set", "", "a+", "constructor", "__proto__"}

NoCompatCall == [called |-> FALSE, arg |-> "", ret |-> Undefined]
NoFindResp ==
    [status |-> 0, donors |-> {}, blood_group_needed |-> "",
     compatible_types |-> <<>>]

\* the filter without the availability condition
DonorFilterAnyAvailability(row, types) ==
    /\ row.role = "individual"
    /\ row.profile_complete = TRUE
    /\ row.blood_group \in Range(types)

\* .eq('role', 'individual').eq('profile_complete', true)
\* .eq('availability_status', 'Available').in('blood_group', types)
DonorFilter(row, types) ==
    /\ row.role = "individual"
    /\ row.profile_complete = TRUE
    /\ row.availability_status = "Available"
    /\ row.blood_group \in Range(types)

SelectDonors(types) ==
    {i \in DOMAIN profiles : DonorFilter(profiles[i], types)}

FindDonorsResponse(blood_group_needed, dbError) ==
    IF ~StrTruthy(blood_group_needed)
    THEN [NoFindResp EXCEPT !.status = 400]
    ELSE LET compatibleBloodTypes == getCompatibleDonors(blood_group_needed)
         IN  IF compatibleBloodTypes.type # "array"
             \* .in() iterates its argument: a non-array throws, caught -> 500
             THEN [NoFindResp EXCEPT !.status = 500]
             ELSE IF dbError
             THEN [NoFindResp EXCEPT !.status = 500]
             ELSE [status |-> 200,
                   donors |-> SelectDonors(compatibleBloodTypes.elems),
                   blood_group_needed |-> blood_group_needed,
                   compatible_types |-> compatibleBloodTypes.elems]

FindDonors ==
    \E blood_group_needed \in BloodGroupInputs, dbError \in BOOLEAN :
        /\ findResp' = FindDonorsResponse(blood_group_needed, dbError)
        /\ UNCHANGED <<profiles, compatCall>>
        /\ UNCHANGED <<authVars, notifVars, restVars>>

\* one direct evaluation in a behaviour: the function reads no state
CallGetCompatibleDonors ==
    \E r \in BloodGroupInputs :
        /\ ~compatCall.called
        /\ compatCall' = [called |-> TRUE, arg |-> r, ret |-> getCompatibleDonors(r)]
        /\ UNCHANGED <<profiles, findResp>>
        /\ UNCHANGED <<authVars, notifVars, restVars>>

----------------------------------------------------------------------------
(* Strings are sequences of characters; a fixed literal is one element *)

IsPrefix(p, str) == Len(p) <= Len(str) /\ SubSeq(str, 1, Len(p)) = p

\* ids of the authenticated users
UserIds == {<<"x">>, <<"y">>}

\* donor identifiers a caller can put in donor_ids: any string
DonorIdStrings == UserIds \cup {<<"x", ":", "y">>}

HexDigits == <<"1", "2", "3", "4", "5", "6", "7", "8", "9">>

\* an identifier source that hands out the same value again
UuidRepeated(k) == <<HexDigits[1]>>

\* the k-th value returned by crypto.randomUUID(): hexadecimal digits and
\* dashes, never a colon, never repeated
Uuid(k) == <<HexDigits[k]>>


\* `notification:${id}`
PrimaryKey(id) == <<"notification", ":">> \o id

\* an index key that leaves the donor out
IndexKeyWithoutDonor(donor_id, id) == <<"donor_notifications", ":">> \o id

\* `donor_notifications:${donor_id}:${id}`
IndexKey(donor_id, id) == <<"donor_notifications", ":">> \o donor_id \o <<":">> \o id

\* `donor_notifications:${donorId}:`
DonorPrefix(donorId) == <<"donor_notifications", ":">> \o donorId \o <<":">>

IsPrimaryKey(k) == IsPrefix(<<"notification", ":">>, k)
IsIndexKey(k) == IsPrefix(<<"donor_notifications", ":">>, k)

\* new Date().toISOString(): fixed-width digits
Digits == <<"0", "1", "2", "3", "4", "5", "6", "7", "8", "9">>
ToISOString(t) == <<Digits[(t \div 10) + 1], Digits[(t % 10) + 1]>>

DigitValue(c) == CHOOSE v \in 0..9 : Digits[v + 1] = c

\* new Date(str).getTime()
GetTime(str) == DigitValue(str[1]) * 10 + DigitValue(str[2])

----------------------------------------------------------------------------
(* blood_requests rows read by notify-donors, with the joined hospital *)

BloodRequests ==
    [r \in {"r1", "r2"} |->
        IF r = "r1"
        THEN [blood_group_needed |-> "A+", urgency |-> "Critical",
              hospital_id |-> "h1", hospital_name |-> "City Hospital"]
        ELSE [blood_group_needed |-> "O-", urgency |-> "Low",
              hospital_id |-> "h2", hospital_name |-> "County Clinic"]]

NotAnArray == [isArray |-> FALSE, items |-> <<>>]
JsonArray(q) == [isArray |-> TRUE, items |-> q]

\* bodies { request_id, donor_ids } sent to notify-donors: a donor and an
\* identifier that extends the donor's id with a colon, the
\* same donor twice, no donor, an unknown request, no request id, donor_ids
\* that is not an array
NotifyBodies ==
    {[request_id |-> "r2", donor_ids |-> JsonArray(<< <<"x">>, <<"x", ":", "y">> >>)],
     [request_id |-> "r1", donor_ids |-> JsonArray(<< <<"y">>, <<"y">> >>)],
     [request_id |-> "r2", donor_ids |-> JsonArray(<<>>)],
     [request_id |-> "r9", donor_ids |-> JsonArray(<< <<"x">> >>)],
     [request_id |-> "",   donor_ids |-> JsonArray(<< <<"x">> >>)],
     [request_id |-> "r1", donor_ids |-> NotAnArray]}

LongestList ==
    CHOOSE n \in 0..9 :
        /\ \E b \in NotifyBodies : Len(b.donor_ids.items) = n
        /\ \A b \in NotifyBodies : Len(b.donor_ids.items) <= n

MaxUuids == MaxNotifyCalls * LongestList

----------------------------------------------------------------------------
(* Key-value store *)

EmptyStore == <<>>

KvNotification(n) == [kind |-> "notification", rec |-> n, ref |-> <<>>]
NoRecord ==
    [id |-> <<>>, donor_id |-> <<>>, request_id |-> "", message |-> <<>>,
     urgency |-> "", created_at |-> <<>>, read |-> FALSE]
KvId(id) == [kind |-> "id", rec |-> NoRecord, ref |-> id]
KvMissing == [kind |-> "undefined", rec |-> NoRecord, ref |-> <<>>]

kvSet(store, key, value) ==
    [k \in DOMAIN store \cup {key} |-> IF k = key THEN value ELSE store[k]]

kvGet(store, key) ==
    IF key \in DOMAIN store THEN store[key] ELSE KvMissing

\* entries {key, value} of every key that starts with the prefix
kvGetByPrefix(store, prefix) ==
    {[key |-> k, value |-> store[k]] : k \in {j \in DOMAIN store : IsPrefix(prefix, j)}}

\* a scan hands its rows back in no promised order: here in the order the
\* rows were written, or in the reverse of it
RECURSIVE OldestFirst(_)
OldestFirst(S) ==
    IF S = {} THEN <<>>
    ELSE LET first == CHOOSE e \in S :
                 \A o \in S : DigitValue(e.value.ref[1]) <= DigitValue(o.value.ref[1])
         IN  <<first>> \o OldestFirst(S \ {first})

Reverse(q) == [i \in 1..Len(q) |-> q[Len(q) + 1 - i]]

ScanOrders(S) == {OldestFirst(S), Reverse(OldestFirst(S))}

----------------------------------------------------------------------------
(* POST /notify-donors *)

\* tableReads: queries sent to the database tables by the answering handler;
\* stats: the stats block of an analytics answer
NoStats == [present |-> FALSE, hospital_id |-> "", total_users |-> 0,
            total_requests |-> 0]

NoResp ==
    [op |-> "", status |-> 0, caller |-> <<>>, donorId |-> <<>>,
     notifications |-> <<>>, notifications_count |-> 0, kvReads |-> 0,
     tableReads |-> 0, stats |-> NoStats, notificationId |-> <<>>]

IdleCall ==
    [pc |-> "idle", request_id |-> "", donor_ids |-> NotAnArray,
     notifications |-> <<>>, next |-> 1, stage |-> "primary",
     status |-> 0, notifications_count |-> 0]

\* donor_ids.map(donorId => ({...})) with the n-th fresh identifier
NewNotification(donorId, request_id, request, now, n) ==
    [id |-> Uuid(n),
     donor_id |-> donorId,
     request_id |-> request_id,
     message |-> <<"New blood donation request: ", request.blood_group_needed,
                   " needed at ", request.hospital_name>>,
     urgency |-> request.urgency,
     created_at |-> ToISOString(now),
     read |-> FALSE]

\* every answer but the 400 comes after the blood_requests lookup
NotifyResp(status, count) ==
    [op |-> "notify", status |-> status, caller |-> <<>>, donorId |-> <<>>,
     notifications |-> <<>>, notifications_count |-> count, kvReads |-> 0,
     tableReads |-> IF status = 400 THEN 0 ELSE 1, stats |-> NoStats,
     notificationId |-> <<>>]

\* the handler up to its first store write: validation, request lookup and
\* the construction of the notification list. The clock advances by one
\* between invocations and the notifications of one invocation share its
\* timestamp.
NotifyBegin(c) ==
    /\ notifyCalls[c].pc = "idle"
    /\ \E body \in NotifyBodies :
        LET request_id == body.request_id
            donor_ids == body.donor_ids
            now == clock + 1
        IN
        /\ clock' = now
        /\ IF ~StrTruthy(request_id) \/ ~donor_ids.isArray
           THEN /\ notifyCalls' = [notifyCalls EXCEPT ![c] =
                      [IdleCall EXCEPT !.pc = "done", !.status = 400]]
                /\ resp' = NotifyResp(400, 0)
                /\ UNCHANGED uuidCount
           ELSE IF request_id \notin DOMAIN BloodRequests
           THEN /\ notifyCalls' = [notifyCalls EXCEPT ![c] =
                      [IdleCall EXCEPT !.pc = "done", !.status = 404]]
                /\ resp' = NotifyResp(404, 0)
                /\ UNCHANGED uuidCount
           ELSE /\ notifyCalls' = [notifyCalls EXCEPT ![c] =
                      [IdleCall EXCEPT
                         !.pc = "writing", !.request_id = request_id,
                         !.donor_ids = donor_ids,
                         !.notifications =
                             [i \in 1..Len(donor_ids.items) |->
                                 NewNotification(donor_ids.items[i], request_id,
                                                 BloodRequests[request_id], now,
                                                 uuidCount + i)]]]
                /\ uuidCount' = uuidCount + Len(donor_ids.items)
                /\ resp' = NoResp
    /\ UNCHANGED <<kv, markCall, donorVars, authVars, restVars>>

\* an invocation received when the ones before it have answered: the calls
\* are taken one after the other, reader and mark-read steps interleave
\* with every write
NotifyStart(c) ==
    /\ \A b \in 1..(c - 1) : notifyCalls[b].pc = "done"
    /\ NotifyBegin(c)

\* the loop moving on to the index write without the primary write
NotifyWritePrimarySkipped(c) ==
    LET call == notifyCalls[c]
    IN  /\ call.pc = "writing"
        /\ call.next <= Len(call.notifications)
        /\ call.stage = "primary"
        /\ notifyCalls' = [notifyCalls EXCEPT ![c].stage = "index"]
        /\ resp' = NoResp
        /\ UNCHANGED <<kv, clock, uuidCount, markCall, donorVars, authVars, restVars>>

\* await kv.set(`notification:${notification.id}`, notification)
NotifyWritePrimary(c) ==
    LET call == notifyCalls[c]
        n == call.notifications[call.next]
    IN  /\ call.pc = "writing"
        /\ call.next <= Len(call.notifications)
        /\ call.stage = "primary"
        /\ kv' = kvSet(kv, PrimaryKey(n.id), KvNotification(n))
        /\ notifyCalls' = [notifyCalls EXCEPT ![c].stage = "index"]
        /\ resp' = NoResp
        /\ UNCHANGED <<clock, uuidCount, markCall, donorVars, authVars, restVars>>

\* await kv.set(`donor_notifications:${donor_id}:${id}`, notification.id)
NotifyWriteIndex(c) ==
    LET call == notifyCalls[c]
        n == call.notifications[call.next]
    IN  /\ call.pc = "writing"
        /\ call.next <= Len(call.notifications)
        /\ call.stage = "index"
        /\ kv' = kvSet(kv, IndexKey(n.donor_id, n.id), KvId(n.id))
        /\ notifyCalls' = [notifyCalls EXCEPT ![c].stage = "primary",
                                              ![c].next = call.next + 1]
        /\ resp' = NoResp
        /\ UNCHANGED <<clock, uuidCount, markCall, donorVars, authVars, restVars>>

\* a failure path that removes what the call had written
NotifyWriteFailsWithRollback(c) ==
    LET call == notifyCalls[c]
        own == {PrimaryKey(call.notifications[i].id) : i \in 1..Len(call.notifications)}
                 \cup {IndexKey(call.notifications[i].donor_id, call.notifications[i].id) :
                          i \in 1..Len(call.notifications)}
    IN  /\ call.pc = "writing"
        /\ call.next <= Len(call.notifications)
        /\ kv' = [k \in DOMAIN kv \ own |-> kv[k]]
        /\ notifyCalls' = [notifyCalls EXCEPT ![c].pc = "done", ![c].status = 500]
        /\ resp' = NotifyResp(500, 0)
        /\ UNCHANGED <<clock, uuidCount, markCall, donorVars, authVars, restVars>>

\* a kv.set that throws: the catch block answers 500
NotifyWriteFails(c) ==
    LET call == notifyCalls[c]
    IN  /\ call.pc = "writing"
        /\ call.next <= Len(call.notifications)
        /\ notifyCalls' = [notifyCalls EXCEPT ![c].pc = "done", ![c].status = 500]
        /\ resp' = NotifyResp(500, 0)
        /\ UNCHANGED <<kv, clock, uuidCount, markCall, donorVars, authVars, restVars>>

\* the loop is over: 200 with notifications_count
NotifyRespond(c) ==
    LET call == notifyCalls[c]
    IN  /\ call.pc = "writing"
        /\ call.next > Len(call.notifications)
        /\ notifyCalls' = [notifyCalls EXCEPT
                             ![c].pc = "done", ![c].status = 200,
                             ![c].notifications_count = Len(call.notifications)]
        /\ resp' = NotifyResp(200, Len(call.notifications))
        /\ UNCHANGED <<kv, clock, uuidCount, markCall, donorVars, authVars, restVars>>

----------------------------------------------------------------------------
(* GET /notifications/:donor_id *)


\* for (const idEntry of notificationIds) { get; if (notification) push }
RECURSIVE Resolve(_, _)
Resolve(store, entries) ==
    IF entries = <<>> THEN <<>>
    ELSE LET notification == kvGet(store, PrimaryKey(Head(entries).value.ref))
             rest == Resolve(store, Tail(entries))
         IN  IF notification.kind # "undefined"
             THEN <<notification.rec>> \o rest
             ELSE rest

\* the comparator with its operands swapped: oldest first
RECURSIVE InsertByCreatedAtAscending(_, _)
InsertByCreatedAtAscending(sorted, n) ==
    IF sorted = <<>> THEN <<n>>
    ELSE IF GetTime(Head(sorted).created_at) - GetTime(n.created_at) > 0
         THEN <<n>> \o sorted
         ELSE <<Head(sorted)>> \o InsertByCreatedAtAscending(Tail(sorted), n)

\* insertion keeping the order of equal elements: the comparator is
\* getTime(b.created_at) - getTime(a.created_at)
RECURSIVE InsertByCreatedAt(_, _)
InsertByCreatedAt(sorted, n) ==
    IF sorted = <<>> THEN <<n>>
    ELSE IF GetTime(n.created_at) - GetTime(Head(sorted).created_at) > 0
         THEN <<n>> \o sorted
         ELSE <<Head(sorted)>> \o InsertByCreatedAt(Tail(sorted), n)

\* notifications.sort(...): stable, newest first
RECURSIVE SortByCreatedAtDesc(_)
SortByCreatedAtDesc(list) ==
    IF list = <<>> THEN <<>>
    ELSE InsertByCreatedAt(SortByCreatedAtDesc(SubSeq(list, 1, Len(list) - 1)),
                           list[Len(list)])

\* no comparison of the caller with the requested donor
OwnershipCheckSkipped(userId, donorId) == FALSE

\* if (user.id !== donorId) return 403
OwnershipCheck(userId, donorId) == userId # donorId

ReadResp(status, caller, donorId, notifications, kvReads) ==
    [op |-> "read", status |-> status, caller |-> caller, donorId |-> donorId,
     notifications |-> notifications, notifications_count |-> 0,
     kvReads |-> kvReads, tableReads |-> 0, stats |-> NoStats,
     notificationId |-> <<>>]

GetNotifications ==
    \E caller \in UserIds, donorId \in DonorIdStrings, storeError \in BOOLEAN :
        /\ IF OwnershipCheck(caller, donorId)
           THEN resp' = ReadResp(403, caller, donorId, <<>>, 0)
           ELSE IF storeError
           THEN resp' = ReadResp(500, caller, donorId, <<>>, 1)
           ELSE \E notificationIds \in ScanOrders(kvGetByPrefix(kv, DonorPrefix(donorId))) :
                    resp' = ReadResp(200, caller, donorId,
                                     SortByCreatedAtDesc(Resolve(kv, notificationIds)),
                                     1 + Len(notificationIds))
        /\ UNCHANGED <<uiVars, kv, clock, uuidCount, notifyCalls, markCall,
                       donorVars, authVars, restVars>>

----------------------------------------------------------------------------
(* PUT /notifications/:notification_id/read *)

NoMarkCall == [pc |-> "idle", notificationId |-> <<>>, notification |-> NoRecord]

\* :notification_id of a request: the first two identifiers minted and one
\* that is never minted
NotificationIdInputs == {Uuid(1), Uuid(2), Uuid(MaxUuids + 1)}

MarkResp(status) ==
    [NoResp EXCEPT !.op = "mark", !.status = status, !.kvReads = 1]

\* the answer together with the :notification_id it is about
MarkRespFor(notificationId, status) ==
    [MarkResp(status) EXCEPT !.notificationId = notificationId]

\* kv.get, the 404 answer, and notification.read = true
MarkReadGet ==
    \E notificationId \in NotificationIdInputs :
        LET notification == kvGet(kv, PrimaryKey(notificationId))
        IN  /\ markCall.pc = "idle"
            /\ IF notification.kind = "undefined"
               THEN /\ resp' = MarkRespFor(notificationId, 404)
                    /\ UNCHANGED markCall
               ELSE /\ markCall' = [pc |-> "writing",
                                    notificationId |-> notificationId,
                                    notification |->
                                        [notification.rec EXCEPT !.read = TRUE]]
                    /\ resp' = NoResp
            /\ UNCHANGED <<kv, clock, uuidCount, notifyCalls, donorVars, authVars, restVars>>

\* a write of the flag alone: kv.set(key, { read: true })
MarkReadSetFlagOnly ==
    /\ markCall.pc = "writing"
    /\ kv' = kvSet(kv, PrimaryKey(markCall.notificationId),
                   KvNotification([NoRecord EXCEPT !.read = TRUE]))
    /\ resp' = MarkRespFor(markCall.notificationId, 200)
    /\ markCall' = NoMarkCall
    /\ UNCHANGED <<clock, uuidCount, notifyCalls, donorVars, authVars, restVars>>

\* await kv.set(`notification:${notificationId}`, notification) and 200
MarkReadSet ==
    /\ markCall.pc = "writing"
    /\ kv' = kvSet(kv, PrimaryKey(markCall.notificationId),
                   KvNotification(markCall.notification))
    /\ resp' = MarkRespFor(markCall.notificationId, 200)
    /\ markCall' = NoMarkCall
    /\ UNCHANGED <<clock, uuidCount, notifyCalls, donorVars, authVars, restVars>>

\* the kv.set throws: 500
MarkReadFails ==
    /\ markCall.pc = "writing"
    /\ resp' = MarkRespFor(markCall.notificationId, 500)
    /\ markCall' = NoMarkCall
    /\ UNCHANGED <<kv, clock, uuidCount, notifyCalls, donorVars, authVars, restVars>>

\* The handler again, for an invocation that runs while the first one is
\* between its kv.get and its kv.set
OtherMarkReadGet ==
    \E notificationId \in NotificationIdInputs :
        LET notification == kvGet(kv, PrimaryKey(notificationId))
        IN  /\ otherMarkCall.pc = "idle"
            /\ IF notification.kind = "undefined"
               THEN /\ resp' = MarkRespFor(notificationId, 404)
                    /\ UNCHANGED otherMarkCall
               ELSE /\ otherMarkCall' = [pc |-> "writing",
                                         notificationId |-> notificationId,
                                         notification |->
                                             [notification.rec EXCEPT !.read = TRUE]]
                    /\ resp' = NoResp
            /\ UNCHANGED <<uiVars, kv, clock, uuidCount, notifyCalls, markCall,
                           donorVars, authVars, serverVars, requestVars>>

OtherMarkReadSet ==
    /\ otherMarkCall.pc = "writing"
    /\ kv' = kvSet(kv, PrimaryKey(otherMarkCall.notificationId),
                   KvNotification(otherMarkCall.notification))
    /\ resp' = MarkRespFor(otherMarkCall.notificationId, 200)
    /\ otherMarkCall' = NoMarkCall
    /\ UNCHANGED <<uiVars, clock, uuidCount, notifyCalls, markCall,
                   donorVars, authVars, serverVars, requestVars>>

OtherMarkReadFails ==
    /\ otherMarkCall.pc = "writing"
    /\ resp' = MarkRespFor(otherMarkCall.notificationId, 500)
    /\ otherMarkCall' = NoMarkCall
    /\ UNCHANGED <<uiVars, kv, clock, uuidCount, notifyCalls, markCall,
                   donorVars, authVars, serverVars, requestVars>>

----------------------------------------------------------------------------
(* The Hono application: routes, authenticateUser and the analytics handlers *)

\* c.req.header('Authorization'): absent or a string
NoHeader == [present |-> FALSE, value |-> <<>>]
Header(v) == [present |-> TRUE, value |-> v]

BearerPrefix == <<"B", "e", "a", "r", "e", "r", " ">>
BasicPrefix == <<"B", "a", "s", "i", "c", " ">>

\* supabase.auth.getUser(token): the access tokens that resolve to a user
AuthSessions ==
    [token \in {<<"t", "x">>, <<"t", "y">>} |->
        IF token = <<"t", "x">> THEN <<"x">> ELSE <<"y">>]

\* Authorization headers of incoming requests: none, another scheme, a bearer
\* token that resolves to nobody, and the bearer tokens of the two users
AuthHeaders ==
    {NoHeader,
     Header(BasicPrefix \o <<"t", "x">>),
     Header(BearerPrefix \o <<"z">>),
     Header(BearerPrefix \o <<"t", "x">>),
     Header(BearerPrefix \o <<"t", "y">>)}

NoUser == <<>>

\* a middleware that takes any bearer token as the user it names
authenticateAnyBearer(authHeader) ==
    IF ~authHeader.present \/ authHeader.value = <<>>
         \/ ~IsPrefix(BearerPrefix, authHeader.value)
    THEN [status |-> 401, user |-> NoUser]
    ELSE LET token == SubSeq(authHeader.value, 8, Len(authHeader.value))
         IN  [status |-> 0,
              user |-> IF token \in DOMAIN AuthSessions
                       THEN AuthSessions[token] ELSE token]

\* authenticateUser: 401 unless the header starts with 'Bearer ' and
\* getUser(authHeader.substring(7)) yields a user; status 0 is next()
authenticateUser(authHeader) ==
    IF ~authHeader.present \/ authHeader.value = <<>>
         \/ ~IsPrefix(BearerPrefix, authHeader.value)
    THEN [status |-> 401, user |-> NoUser]
    ELSE LET token == SubSeq(authHeader.value, 8, Len(authHeader.value))
         IN  IF token \notin DOMAIN AuthSessions
             THEN [status |-> 401, user |-> NoUser]
             ELSE [status |-> 0, user |-> AuthSessions[token]]

Routes ==
    {"health", "find-donors", "notify-donors", "notifications", "mark-read",
     "platform-stats", "hospital-analytics"}

\* the routes registered with authenticateUser before their handler
ProtectedRoutes == Routes \ {"health"}

NoRequest == [route |-> "", header |-> NoHeader, hospital_id |-> ""]

\* no handler of an earlier request is between two of its store writes
ServerQuiet ==
    /\ markCall.pc = "idle"
    /\ \A c \in DOMAIN notifyCalls : notifyCalls[c].pc # "writing"

\* a request arrives; :hospital_id is part of the analytics path
Receive ==
    /\ ServerQuiet
    /\ \E route \in Routes, header \in AuthHeaders, hospital_id \in HospitalIds :
        /\ route # "hospital-analytics" => hospital_id = "h1"
        /\ httpRequest' = [route |-> route, header |-> header,
                       hospital_id |-> IF route = "hospital-analytics"
                                       THEN hospital_id ELSE ""]
    /\ resp' = NoResp
    /\ UNCHANGED <<uiVars, kv, clock, uuidCount, notifyCalls, markCall, profileTable,
                   otherMarkCall, requestVars>>
    /\ UNCHANGED <<donorVars, authVars>>

\* the middleware passed the request on to the handler of this route
Passed(route) ==
    /\ httpRequest.route = route
    /\ authenticateUser(httpRequest.header).status # 401

RequestUser == authenticateUser(httpRequest.header).user

\* the middleware answers and next() is not called
Unauthenticated ==
    /\ httpRequest.route \in ProtectedRoutes
    /\ authenticateUser(httpRequest.header).status = 401
    /\ resp' = [NoResp EXCEPT !.op = httpRequest.route, !.status = 401]
    /\ UNCHANGED <<uiVars, kv, clock, uuidCount, notifyCalls, markCall, serverVars,
                   otherMarkCall, requestVars>>
    /\ UNCHANGED <<donorVars, authVars>>

\* GET /health
ServeHealth ==
    /\ httpRequest.route = "health"
    /\ resp' = [NoResp EXCEPT !.op = "health", !.status = 200]
    /\ UNCHANGED <<uiVars, kv, clock, uuidCount, notifyCalls, markCall, serverVars,
                   otherMarkCall, requestVars>>
    /\ UNCHANGED <<donorVars, authVars>>

\* .from('profiles').select(...).eq('id', user.id).single(): data is null
\* when there is no row or the query fails
SelectProfile(userId, queryError) ==
    IF queryError THEN NullProfile ELSE profileTable[userId]

Individuals == {u \in DOMAIN profileTable :
                   /\ ~profileTable[u].isNull
                   /\ profileTable[u].role = "individual"}

\* a check that only asks for a profile row
PlatformStatsDeniedWithoutRow(profile) == profile.isNull

\* if (!profile || profile.role !== 'platform_admin') return 403
PlatformStatsDenied(profile) ==
    profile.isNull \/ profile.role # "platform_admin"

\* GET /analytics/platform-stats
ServePlatformStats ==
    /\ Passed("platform-stats")
    /\ \E queryError \in BOOLEAN :
        LET profile == SelectProfile(RequestUser, queryError)
        IN  resp' =
              IF PlatformStatsDenied(profile)
              THEN [NoResp EXCEPT !.op = "platform-stats", !.status = 403,
                                  !.caller = RequestUser, !.tableReads = 1]
              ELSE [NoResp EXCEPT !.op = "platform-stats", !.status = 200,
                                  !.caller = RequestUser, !.tableReads = 5,
                                  !.stats = [present |-> TRUE,
                                             hospital_id |-> "",
                                             total_users |-> Cardinality(Individuals),
                                             total_requests |->
                                                 Cardinality(DOMAIN BloodRequests)]]
    /\ UNCHANGED <<uiVars, kv, clock, uuidCount, notifyCalls, markCall, serverVars,
                   otherMarkCall, requestVars>>
    /\ UNCHANGED <<donorVars, authVars>>

\* if (!profile || (profile.role !== 'platform_admin' &&
\*                  profile.hospital_id !== hospitalId)) return 403
HospitalAnalyticsDenied(profile, hospitalId) ==
    \/ profile.isNull
    \/ /\ profile.role # "platform_admin"
       /\ ~StrictEquals(profile.hospital_id, JsString(hospitalId))

\* GET /analytics/hospital/:hospital_id
ServeHospitalAnalytics ==
    /\ Passed("hospital-analytics")
    /\ \E queryError \in BOOLEAN :
        LET hospitalId == httpRequest.hospital_id
            profile == SelectProfile(RequestUser, queryError)
        IN  resp' =
              IF HospitalAnalyticsDenied(profile, hospitalId)
              THEN [NoResp EXCEPT !.op = "hospital-analytics", !.status = 403,
                                  !.caller = RequestUser, !.tableReads = 1]
              ELSE [NoResp EXCEPT !.op = "hospital-analytics", !.status = 200,
                                  !.caller = RequestUser, !.tableReads = 3,
                                  !.stats = [present |-> TRUE,
                                             hospital_id |-> hospitalId,
                                             total_users |-> 0,
                                             total_requests |->
                                                 Cardinality({r \in DOMAIN BloodRequests :
                                                     BloodRequests[r].hospital_id = hospitalId})]]
    /\ UNCHANGED <<uiVars, kv, clock, uuidCount, notifyCalls, markCall, serverVars,
                   otherMarkCall, requestVars>>
    /\ UNCHANGED <<donorVars, authVars>>

\* POST /find-donors behind the middleware
ServeFindDonors ==
    /\ Passed("find-donors")
    /\ \E blood_group_needed \in {"A+", "", "constructor"}, dbError \in BOOLEAN :
        LET answer == FindDonorsResponse(blood_group_needed, dbError)
        IN  /\ findResp' = answer
            /\ resp' = [NoResp EXCEPT
                          !.op = "find-donors", !.status = answer.status,
                          !.caller = RequestUser,
                          !.tableReads =
                              IF /\ StrTruthy(blood_group_needed)
                                 /\ getCompatibleDonors(blood_group_needed).type = "array"
                              THEN 1 ELSE 0]
    /\ UNCHANGED <<profiles, compatCall>>
    /\ UNCHANGED <<uiVars, kv, clock, uuidCount, notifyCalls, markCall, serverVars,
                   otherMarkCall, requestVars>>
    /\ UNCHANGED authVars

\* POST /notify-donors behind the middleware
ServeNotifyDonors == Passed("notify-donors") /\ NotifyStart(1)

\* GET /notifications/:donor_id behind the middleware: user is c.get('user')
ServeNotifications ==
    /\ Passed("notifications")
    /\ GetNotifications
    /\ resp'.caller = RequestUser

\* the handler comparing the notification's donor with the caller first
ServeMarkReadOwnerOnly ==
    /\ Passed("mark-read")
    /\ \/ /\ MarkReadGet
          /\ markCall'.pc = "writing" => markCall'.notification.donor_id = RequestUser
       \/ \E notificationId \in NotificationIdInputs :
             LET notification == kvGet(kv, PrimaryKey(notificationId))
             IN  /\ markCall.pc = "idle"
                 /\ notification.kind # "undefined"
                 /\ notification.rec.donor_id # RequestUser
                 /\ resp' = MarkRespFor(notificationId, 403)
                 /\ UNCHANGED <<kv, clock, uuidCount, notifyCalls, markCall,
                                donorVars, authVars, restVars>>

\* PUT /notifications/:notification_id/read behind the middleware
ServeMarkRead == Passed("mark-read") /\ MarkReadGet

\* a profile row is rewritten: updateProfile(updates) on the user's own row,
\* any column included
UpdateProfile ==
    /\ ServerQuiet
    /\ \E u \in DOMAIN profileTable, row \in AuthProfiles :
        /\ ~profileTable[u].isNull
        /\ profileTable' = [profileTable EXCEPT ![u] = row]
    /\ resp' = NoResp
    /\ UNCHANGED <<uiVars, kv, clock, uuidCount, notifyCalls, markCall, httpRequest,
                   otherMarkCall, requestVars>>
    /\ UNCHANGED <<donorVars, authVars>>

----------------------------------------------------------------------------
(* public.blood_requests under its row policies, and verify-blood-request *)

RequestStatusEnum == {"pending_verification", "active", "fulfilled", "cancelled"}

RequestIds == {"q1"}

NoRequestRow ==
    [exists |-> FALSE, requester_id |-> NoUser, hospital_id |-> "", status |-> ""]

\* requests_self_access: FOR ALL USING (requester_id = auth.uid())
RequestsSelfAccess(uid, row) == row.requester_id = uid

\* requests_public_read_active: FOR SELECT USING (status = 'active')
RequestsPublicReadActive(uid, row) == row.status = "active"

\* requests_authenticated_manage: FOR UPDATE USING (auth.uid() IS NOT NULL)
RequestsAuthenticatedManage(uid, row) == uid # NoUser

\* the rows of public.blood_requests a SELECT of uid returns
RequestSelectable(uid, row) ==
    /\ row.exists
    /\ RequestsSelfAccess(uid, row) \/ RequestsPublicReadActive(uid, row)

\* the rows an UPDATE ... WHERE id = ... of uid reaches: the row is read
\* for the WHERE clause and then passes an UPDATE policy
RequestUpdatable(uid, row) ==
    /\ RequestSelectable(uid, row)
    /\ RequestsSelfAccess(uid, row) \/ RequestsAuthenticatedManage(uid, row)

\* answers of calls on blood_requests: who called, about which row
RequestResp(op, status, caller, request_id) ==
    [NoResp EXCEPT !.op = op, !.status = status, !.caller = caller,
                   !.notificationId = request_id]

\* CreateRequestModal handleSubmit: the signed-in user inserts a request for
\* a hospital of the list, status pending_verification
CreateRequest ==
    \E u \in UserIds, id \in RequestIds, hospital_id \in HospitalIds :
        /\ ~blood_requests[id].exists
        /\ ~profileTable[u].isNull
        /\ blood_requests' =
              [blood_requests EXCEPT ![id] =
                  [exists |-> TRUE, requester_id |-> u,
                   hospital_id |-> hospital_id,
                   status |-> "pending_verification"]]
        /\ resp' = RequestResp("insert", 201, u, id)
        /\ UNCHANGED <<uiVars, verifyCall, kv, clock, uuidCount, notifyCalls, markCall,
                       otherMarkCall, serverVars, donorVars, authVars>>

\* an update of the status column sent to the data API with the requester's
\* own session: requests_self_access admits the old and the new row
UpdateOwnRequest ==
    \E u \in UserIds, id \in RequestIds, status \in RequestStatusEnum :
        /\ RequestUpdatable(u, blood_requests[id])
        /\ RequestsSelfAccess(u, blood_requests[id])
        /\ blood_requests[id].status # status
        /\ blood_requests' = [blood_requests EXCEPT ![id].status = status]
        /\ resp' = RequestResp("update", 200, u, id)
        /\ UNCHANGED <<uiVars, verifyCall, kv, clock, uuidCount, notifyCalls, markCall,
                       otherMarkCall, serverVars, donorVars, authVars>>

NoVerifyCall ==
    [pc |-> "idle", user |-> NoUser, hospital_id |-> JsNull, request_id |-> ""]

\* { request_id } of the body: a request, an unknown id, none
VerifyBodies == RequestIds \cup {"q9", ""}

\* sessions presented to the function: a user's or none
VerifySessions == UserIds \cup {NoUser}

\* profileError || !profile || profile.role !== 'hospital_admin'
VerifyRoleDenied(profile) ==
    profile.isNull \/ profile.role # "hospital_admin"

\* getUser (401), the profile query (403) and the body (400)
VerifyStart ==
    /\ verifyCall.pc = "idle"
    /\ \E user \in VerifySessions, request_id \in VerifyBodies,
          profileError \in BOOLEAN :
        IF user = NoUser
        THEN /\ resp' = RequestResp("verify", 401, user, request_id)
             /\ UNCHANGED verifyCall
        ELSE LET profile == SelectProfile(user, profileError)
             IN  IF VerifyRoleDenied(profile)
                 THEN /\ resp' = RequestResp("verify", 403, user, request_id)
                      /\ UNCHANGED verifyCall
                 ELSE IF ~StrTruthy(request_id)
                 THEN /\ resp' = RequestResp("verify", 400, user, request_id)
                      /\ UNCHANGED verifyCall
                 ELSE /\ resp' = NoResp
                      /\ verifyCall' = [pc |-> "select", user |-> user,
                                        hospital_id |-> profile.hospital_id,
                                        request_id |-> request_id]
    /\ UNCHANGED <<uiVars, blood_requests, kv, clock, uuidCount, notifyCalls, markCall,
                   otherMarkCall, serverVars, donorVars, authVars>>

\* .from('blood_requests').select('*').eq('id', request_id)
\*   .eq('hospital_id', profile.hospital_id).single() with the caller's session
VerifySelectRequest(call) ==
    {id \in RequestIds :
        /\ id = call.request_id
        /\ RequestSelectable(call.user, blood_requests[id])
        /\ JsString(blood_requests[id].hospital_id) = call.hospital_id}

\* the request query: 404 when it returns no row
VerifySelect ==
    /\ verifyCall.pc = "select"
    /\ IF VerifySelectRequest(verifyCall) = {}
       THEN /\ resp' = RequestResp("verify", 404, verifyCall.user,
                                   verifyCall.request_id)
            /\ verifyCall' = NoVerifyCall
       ELSE /\ resp' = NoResp
            /\ verifyCall' = [verifyCall EXCEPT !.pc = "update"]
    /\ UNCHANGED <<uiVars, blood_requests, kv, clock, uuidCount, notifyCalls, markCall,
                   otherMarkCall, serverVars, donorVars, authVars>>

\* .update({ status: 'active' }).eq('id', request_id).select(): the rows the
\* caller's session reaches are set to active; the answer is 200 when the
\* query reports no error, 500 when it does
VerifyUpdate ==
    /\ verifyCall.pc = "update"
    /\ \E error \in BOOLEAN :
        IF error
        THEN /\ resp' = RequestResp("verify", 500, verifyCall.user,
                                    verifyCall.request_id)
             /\ UNCHANGED blood_requests
        ELSE /\ resp' = RequestResp("verify", 200, verifyCall.user,
                                    verifyCall.request_id)
             /\ blood_requests' =
                  [id \in RequestIds |->
                      IF /\ id = verifyCall.request_id
                         /\ RequestUpdatable(verifyCall.user, blood_requests[id])
                      THEN [blood_requests[id] EXCEPT !.status = "active"]
                      ELSE blood_requests[id]]
    /\ verifyCall' = NoVerifyCall
    /\ UNCHANGED <<uiVars, kv, clock, uuidCount, notifyCalls, markCall,
                   otherMarkCall, serverVars, donorVars, authVars>>

----------------------------------------------------------------------------
(* public.hospitals under its row policies: the application form of        *)
(* HospitalApplication and the approve and reject requests of AdminPortal  *)

\* rows of the table: the sample rows of the setup script and a free one
HospitalRowIds == {"hA", "hC", "hN"}

NoHospitalRow == [exists |-> FALSE, license_number |-> <<>>, status |-> ""]

\* the sample data of the setup script: LIC001 approved, LIC003 pending_review
SampleHospitals ==
    [id \in HospitalRowIds |->
        CASE id = "hA" -> [exists |-> TRUE, license_number |-> <<"L", "1">>,
                           status |-> "approved"]
          [] id = "hC" -> [exists |-> TRUE, license_number |-> <<"L", "3">>,
                           status |-> "pending_review"]
          [] OTHER -> NoHospitalRow]

\* hospitals_public_read: FOR SELECT USING (status = 'approved')
HospitalsPublicRead(uid, row) == row.status = "approved"

\* hospitals_public_insert: FOR INSERT WITH CHECK (true)
HospitalsPublicInsert(uid, row) == TRUE

\* hospitals_authenticated_update: FOR UPDATE USING (auth.uid() IS NOT NULL)
HospitalsAuthenticatedUpdate(uid, row) == uid # NoUser

\* hospitals_authenticated_delete: FOR DELETE USING (auth.uid() IS NOT NULL)
HospitalsAuthenticatedDelete(uid, row) == uid # NoUser

\* the rows of public.hospitals a SELECT of uid returns
HospitalSelectable(uid, row) == row.exists /\ HospitalsPublicRead(uid, row)

\* license_number TEXT UNIQUE NOT NULL
LicenseTaken(table, license_number) ==
    \E id \in HospitalRowIds :
        table[id].exists /\ table[id].license_number = license_number

RECURSIVE TrimStart(_)
TrimStart(s) == IF s # <<>> /\ Head(s) = " " THEN TrimStart(Tail(s)) ELSE s

RECURSIVE TrimEnd(_)
TrimEnd(s) ==
    IF s # <<>> /\ s[Len(s)] = " " THEN TrimEnd(SubSeq(s, 1, Len(s) - 1)) ELSE s

\* String.prototype.trim
Trim(s) == TrimEnd(TrimStart(s))

PolicyViolationMessage == "new row violates row-level security policy for table \"hospitals\""
DuplicateKeyMessage == "duplicate key value violates unique constraint \"hospitals_license_number_key\""
LicenseExistsMessage == "A hospital with this license number already exists"

\* INSERT ... RETURNING * of one row with the session of uid: the INSERT
\* policy and, for the returned row, the SELECT policies are checked on the
\* new row before it is stored; the unique index is checked when it is
\* stored.  The result is the error, or code "" and the table with the row.
InsertHospitalReturning(table, uid, row) ==
    IF ~HospitalsPublicInsert(uid, row) \/ ~HospitalSelectable(uid, row)
    THEN [code |-> "42501", message |-> PolicyViolationMessage, table |-> table]
    ELSE IF LicenseTaken(table, row.license_number)
    THEN [code |-> "23505", message |-> DuplicateKeyMessage, table |-> table]
    ELSE [code |-> "", message |-> "",
          table |-> [table EXCEPT !["hN"] = row]]

\* what the form holds: the license number typed, the error shown, and
\* whether the confirmation page replaced the form
NoHospitalForm == [license_number |-> <<>>, error |-> "", submitted |-> FALSE]

\* license numbers typed into the form: none, blanks, that of a sample row
\* with and without blanks around it, a new one
LicenseInputs ==
    {<<>>, <<" ">>, <<"L", "1">>, <<" ", "L", "1", " ">>, <<"L", "3">>,
     <<"L", "9">>, <<"L", "9", " ">>}

\* the first of the four other required fields that is blank after trim
RequiredFieldMessage(blankField) ==
    CASE blankField = "name" -> "Hospital name is required"
      [] blankField = "address" -> "Hospital address is required"
      [] blankField = "contact_person_name" -> "Contact person name is required"
      [] blankField = "contact_info" -> "Contact information is required"
      [] OTHER -> ""

BlankFields == {"", "name", "address", "contact_person_name", "contact_info"}

\* handleSubmit of HospitalApplication, by a visitor with or without session
SubmitApplication ==
    /\ ~hospitalForm.submitted
    /\ \E uid \in UserIds \cup {NoUser}, blankField \in BlankFields,
          license_number \in LicenseInputs :
        IF StrTruthy(blankField)
        THEN /\ hospitalForm' = [license_number |-> license_number,
                                 error |-> RequiredFieldMessage(blankField),
                                 submitted |-> FALSE]
             /\ resp' = RequestResp("apply", 0, uid, "")
             /\ UNCHANGED hospitals
        ELSE IF Trim(license_number) = <<>>
        THEN /\ hospitalForm' = [license_number |-> license_number,
                                 error |-> "License number is required",
                                 submitted |-> FALSE]
             /\ resp' = RequestResp("apply", 0, uid, "")
             /\ UNCHANGED hospitals
        ELSE LET row == [exists |-> TRUE,
                         license_number |-> Trim(license_number),
                         status |-> "pending_review"]
                 result == InsertHospitalReturning(hospitals, uid, row)
             IN  /\ hospitals' = result.table
                 /\ resp' = RequestResp("apply",
                                        IF result.code = "" THEN 201 ELSE 400,
                                        uid, "")
                 /\ hospitalForm' =
                      [license_number |-> license_number,
                       error |-> IF result.code = "" THEN ""
                                 ELSE IF result.code = "23505"
                                 THEN LicenseExistsMessage
                                 ELSE result.message,
                       submitted |-> result.code = ""]
    /\ UNCHANGED <<kv, clock, uuidCount, notifyCalls, markCall, otherMarkCall,
                   serverVars, requestVars, loginVars, setupVars, clientVars,
                   donorVars, authVars>>

\* .update({ status: 'approved' }).eq('id', hospitalId) with the session of
\* uid: the row is read for the WHERE clause, passes the UPDATE policy, and
\* the new row is readable again
handleApproveHospital(table, uid, hospitalId) ==
    [id \in HospitalRowIds |->
        IF /\ id = hospitalId
           /\ HospitalSelectable(uid, table[id])
           /\ HospitalsAuthenticatedUpdate(uid, table[id])
        THEN [table[id] EXCEPT !.status = "approved"]
        ELSE table[id]]

\* .delete().eq('id', hospitalId) with the session of uid
handleRejectHospital(table, uid, hospitalId) ==
    [id \in HospitalRowIds |->
        IF /\ id = hospitalId
           /\ HospitalSelectable(uid, table[id])
           /\ HospitalsAuthenticatedDelete(uid, table[id])
        THEN NoHospitalRow
        ELSE table[id]]

\* the approve request reaches the data API with the session of any user or
\* with none; no error is reported when it reaches no row
SendApproveHospital ==
    \E uid \in UserIds \cup {NoUser}, hospitalId \in HospitalRowIds :
        /\ hospitals' = handleApproveHospital(hospitals, uid, hospitalId)
        /\ resp' = RequestResp("approve", 204, uid, hospitalId)
        /\ UNCHANGED <<hospitalForm, kv, clock, uuidCount, notifyCalls,
                       markCall, otherMarkCall, serverVars, requestVars,
                       loginVars, setupVars, clientVars, donorVars, authVars>>

\* the reject request, likewise
SendRejectHospital ==
    \E uid \in UserIds \cup {NoUser}, hospitalId \in HospitalRowIds :
        /\ hospitals' = handleRejectHospital(hospitals, uid, hospitalId)
        /\ resp' = RequestResp("reject", 204, uid, hospitalId)
        /\ UNCHANGED <<hospitalForm, kv, clock, uuidCount, notifyCalls,
                       markCall, otherMarkCall, serverVars, requestVars,
                       loginVars, setupVars, clientVars, donorVars, authVars>>

----------------------------------------------------------------------------
(* Sign-up and sign-in of the Login page, in its two versions: the one     *)
(* that creates the profile row at sign-up and the one that creates it at  *)
(* the first sign-in                                                       *)

NoAccount == [exists |-> FALSE, confirmed |-> FALSE, role |-> ""]

\* the row an insert into profiles carries, when a step sends one
NoInsert ==
    [sent |-> FALSE, role |-> "", profile_complete |-> FALSE,
     blood_group |-> "", availability_status |-> ""]

NewProfileRow(role) ==
    [sent |-> TRUE, role |-> role, profile_complete |-> FALSE,
     blood_group |-> "Not Set", availability_status |-> "Available"]

SignedOut == [session |-> NoUser, error |-> "", inserted |-> NoInsert]

\* profiles_self_access: FOR ALL USING (auth.uid() = id)
ProfilesSelfAccess(uid, id) == uid = id

\* insert of the profile row of id with the session of uid: refused by the
\* policy, by the primary key, or by a failure of the call
InsertProfileCode(uid, id, fails) ==
    IF fails THEN "failed"
    ELSE IF ~ProfilesSelfAccess(uid, id) THEN "42501"
    ELSE IF ~profileTable[id].isNull THEN "23505"
    ELSE ""

\* the table after the insert
InsertProfile(uid, id, role, fails) ==
    IF InsertProfileCode(uid, id, fails) = ""
    THEN [profileTable EXCEPT
            ![id] = [isNull |-> FALSE, role |-> role, hospital_id |-> JsNull]]
    ELSE profileTable

\* createUserProfile: { data, error }, error non-null when the insert failed
createUserProfile(uid, userId, role, fails) ==
    [error |-> InsertProfileCode(uid, userId, fails) # "",
     table |-> InsertProfile(uid, userId, role, fails),
     inserted |-> NewProfileRow(role)]

\* supabase.auth.signUp: an error, or the new account, with a session when
\* the project does not ask for e-mail confirmation
SignUpRefused(u, signUpError) == signUpError \/ authServer.accounts[u].exists

SignUpAccounts(u, role) ==
    [authServer EXCEPT
        !.accounts[u] = [exists |-> TRUE,
                         confirmed |-> ~authServer.confirmEmail,
                         role |-> role]]

SignUpSession(u) == IF authServer.confirmEmail THEN NoUser ELSE u

\* password !== confirmPassword, password.length < 6
PasswordError(passwordsMatch, longEnough) ==
    IF ~passwordsMatch THEN "Passwords do not match"
    ELSE IF ~longEnough THEN "Password must be at least 6 characters long"
    ELSE ""

\* handleSignUp of the version that creates the profile at sign-up
EagerSignUp ==
    /\ login.session = NoUser
    /\ \E u \in UserIds, role \in UserRoleEnum,
          passwordsMatch, longEnough, signUpError, fails \in BOOLEAN :
        IF PasswordError(passwordsMatch, longEnough) # ""
        THEN /\ login' = [SignedOut EXCEPT
                            !.error = PasswordError(passwordsMatch, longEnough)]
             /\ UNCHANGED <<authServer, profileTable>>
        ELSE IF SignUpRefused(u, signUpError)
        THEN /\ login' = [SignedOut EXCEPT !.error = "User already registered"]
             /\ UNCHANGED <<authServer, profileTable>>
        ELSE LET created == createUserProfile(SignUpSession(u), u, role, fails)
             IN  /\ authServer' = SignUpAccounts(u, role)
                 /\ profileTable' = created.table
                 /\ login' =
                      IF created.error
                      THEN [session |-> NoUser,
                            error |-> "Error creating user profile. Please try again.",
                            inserted |-> created.inserted]
                      ELSE [session |-> SignUpSession(u), error |-> "",
                            inserted |-> created.inserted]
    /\ UNCHANGED <<httpRequest, otherMarkCall, requestVars, hospitalVars,
                   setupVars, clientVars, donorVars, authVars, notifVars>>

\* handleSignUp of the version that leaves the profile to the first sign-in
DeferredSignUp ==
    /\ login.session = NoUser
    /\ \E u \in UserIds, role \in UserRoleEnum,
          passwordsMatch, longEnough, signUpError \in BOOLEAN :
        IF PasswordError(passwordsMatch, longEnough) # ""
        THEN /\ login' = [SignedOut EXCEPT
                            !.error = PasswordError(passwordsMatch, longEnough)]
             /\ UNCHANGED authServer
        ELSE IF SignUpRefused(u, signUpError)
        THEN /\ login' = [SignedOut EXCEPT !.error = "User already registered"]
             /\ UNCHANGED authServer
        ELSE /\ authServer' = SignUpAccounts(u, role)
             /\ login' = [SignedOut EXCEPT !.session = SignUpSession(u)]
    /\ UNCHANGED <<serverVars, otherMarkCall, requestVars, hospitalVars,
                   setupVars, clientVars, donorVars, authVars, notifVars>>

\* the user follows the link of the confirmation e-mail
ConfirmEmail ==
    /\ \E u \in UserIds :
        /\ authServer.accounts[u].exists
        /\ ~authServer.accounts[u].confirmed
        /\ authServer' = [authServer EXCEPT !.accounts[u].confirmed = TRUE]
    /\ UNCHANGED <<login, serverVars, otherMarkCall, requestVars, hospitalVars,
                   setupVars, clientVars, donorVars, authVars, notifVars>>

\* supabase.auth.signInWithPassword returns an error
SignInRefused(u, signInError) ==
    \/ signInError
    \/ ~authServer.accounts[u].exists
    \/ ~authServer.accounts[u].confirmed

NotAuthorizedMessage == "This account is not authorized for this portal"

\* handleSignIn of the version that creates the profile at sign-up: any
\* error of the profile query ends the flow with its message
CheckedSignIn ==
    /\ login.session = NoUser
    /\ \E u \in UserIds, role \in UserRoleEnum, signInError, fails \in BOOLEAN :
        IF SignInRefused(u, signInError)
        THEN login' = [SignedOut EXCEPT !.error = "Invalid login credentials"]
        ELSE IF fails \/ profileTable[u].isNull
        THEN login' = [session |-> u,
                       error |-> "Error verifying user role. Please try again.",
                       inserted |-> NoInsert]
        ELSE IF profileTable[u].role # role
        THEN login' = [SignedOut EXCEPT !.error = NotAuthorizedMessage]
        ELSE login' = [SignedOut EXCEPT !.session = u]
    /\ UNCHANGED <<authServer, serverVars, otherMarkCall, requestVars,
                   hospitalVars, setupVars, clientVars, donorVars, authVars, notifVars>>

\* which call of the sign-in fails, if one does
SignInFaults == {"", "select", "insert", "fetch"}

\* data.user.user_metadata?.role || 'individual'
MetadataRole(u) ==
    IF StrTruthy(authServer.accounts[u].role)
    THEN authServer.accounts[u].role
    ELSE "individual"

\* handleSignIn of the version that creates the profile when the query
\* reports no row (PGRST116)
LazySignIn ==
    /\ login.session = NoUser
    /\ \E u \in UserIds, role \in UserRoleEnum, signInError \in BOOLEAN,
          fault \in SignInFaults :
        IF SignInRefused(u, signInError)
        THEN /\ login' = [SignedOut EXCEPT !.error = "Invalid login credentials"]
             /\ UNCHANGED profileTable
        ELSE IF fault = "select"
        THEN /\ login' = [session |-> u,
                          error |-> "Error verifying user role. Please try again.",
                          inserted |-> NoInsert]
             /\ UNCHANGED profileTable
        ELSE IF profileTable[u].isNull
        THEN LET code == InsertProfileCode(u, u, fault = "insert")
                 table == InsertProfile(u, u, MetadataRole(u), fault = "insert")
                 sent == NewProfileRow(MetadataRole(u))
             IN  /\ profileTable' = table
                 /\ login' =
                      IF code # ""
                      THEN [session |-> NoUser,
                            error |-> "Error creating user profile. Please try again.",
                            inserted |-> sent]
                      ELSE IF fault = "fetch"
                      THEN [session |-> NoUser,
                            error |-> "Error fetching user profile. Please try again.",
                            inserted |-> sent]
                      ELSE IF table[u].role # role
                      THEN [session |-> NoUser, error |-> NotAuthorizedMessage,
                            inserted |-> sent]
                      ELSE [session |-> u, error |-> "", inserted |-> sent]
        ELSE /\ login' = IF profileTable[u].role # role
                         THEN [SignedOut EXCEPT !.error = NotAuthorizedMessage]
                         ELSE [SignedOut EXCEPT !.session = u]
             /\ UNCHANGED profileTable
    /\ UNCHANGED <<authServer, httpRequest, otherMarkCall, requestVars,
                   hospitalVars, setupVars, clientVars, donorVars, authVars, notifVars>>

\* signOut of AuthProvider
SignOut ==
    /\ login.session # NoUser
    /\ login' = SignedOut
    /\ UNCHANGED <<authServer, serverVars, otherMarkCall, requestVars,
                   hospitalVars, setupVars, clientVars, donorVars, authVars, notifVars>>

----------------------------------------------------------------------------
(* checkDatabaseSetup and the screen DatabaseSetupCheck renders *)

requiredTables == <<"profiles", "hospitals", "blood_requests", "donations">>

\* what a probe `.from(table).select('id').limit(0)` comes back with: the
\* message thrown (a timeout, a network failure), or { error } with its
\* code and the phrases its message contains
NoProbeError == [thrown |-> "", isError |-> FALSE, code |-> "", message |-> {}]

ProbeError(code, message) ==
    [thrown |-> "", isError |-> TRUE, code |-> code, message |-> message]

ProbeThrows(message) ==
    [thrown |-> message, isError |-> FALSE, code |-> "", message |-> {}]

ProbeOutcomes ==
    {NoProbeError,
     ProbeError("PGRST116", {}),
     ProbeError("PGRST205", {"not find the table"}),
     ProbeError("42P01", {"relation", "does not exist"}),
     ProbeError("42P17", {"infinite recursion detected in policy", "relation"}),
     ProbeError("", {"infinite recursion detected in policy"}),
     ProbeError("42501", {}),
     ProbeThrows("timed out"),
     ProbeThrows("boom")}

\* message?.includes(phrase)
Includes(message, phrase) == phrase \in message

\* code === 'PGRST116' || message includes 'not find the table' ||
\* message includes 'relation' && message includes 'does not exist'
IsTableMissing(error) ==
    \/ error.code = "PGRST116"
    \/ Includes(error.message, "not find the table")
    \/ /\ Includes(error.message, "relation")
       /\ Includes(error.message, "does not exist")

\* a test on the error code alone
IsRLSRecursionByCode(error) == error.code = "42P17"

\* code === '42P17' || message includes 'infinite recursion detected in policy'
IsRLSRecursion(error) ==
    \/ error.code = "42P17"
    \/ Includes(error.message, "infinite recursion detected in policy")

DatabaseStatus(isSetup, missingTables, error) ==
    [isNull |-> FALSE, isSetup |-> isSetup, missingTables |-> missingTables,
     error |-> error]

NoDatabaseStatus ==
    [isNull |-> TRUE, isSetup |-> FALSE, missingTables |-> <<>>, error |-> ""]

\* the loop over requiredTables.slice(1), from table number i on: the
\* missing tables collected, whether a recursion error ended the loop, and
\* the number of the last table probed
RECURSIVE ProbeRest(_, _, _)
ProbeRest(probes, i, missingTables) ==
    IF i > Len(requiredTables)
    THEN [missingTables |-> missingTables, hasRLSRecursionError |-> FALSE,
          last |-> Len(requiredTables)]
    ELSE LET table == requiredTables[i]
             probe == probes[table]
         IN  IF probe.thrown # ""
             THEN ProbeRest(probes, i + 1, Append(missingTables, table))
             ELSE IF probe.isError /\ IsTableMissing(probe)
             THEN ProbeRest(probes, i + 1, Append(missingTables, table))
             ELSE IF probe.isError /\ IsRLSRecursion(probe)
             THEN [missingTables |-> missingTables,
                   hasRLSRecursionError |-> TRUE, last |-> i]
             ELSE ProbeRest(probes, i + 1, missingTables)

\* the message of a thrown error names a network failure or a timeout
IsNetworkError(message) == message \in {"Failed to fetch", "timed out"}

checkDatabaseSetup(probes) ==
    LET connectivity == probes["profiles"]
        rest == ProbeRest(probes, 2, <<>>)
    IN  IF connectivity.thrown # ""
        THEN IF IsNetworkError(connectivity.thrown)
             THEN DatabaseStatus(FALSE, requiredTables, "DATABASE_NOT_SETUP")
             ELSE DatabaseStatus(FALSE, requiredTables, connectivity.thrown)
        ELSE IF connectivity.isError
        THEN IF IsTableMissing(connectivity)
             THEN DatabaseStatus(FALSE, requiredTables, "DATABASE_NOT_SETUP")
             ELSE IF IsRLSRecursion(connectivity)
             THEN DatabaseStatus(FALSE, <<>>, "RLS_RECURSION_ERROR")
             ELSE DatabaseStatus(FALSE, requiredTables, "DATABASE_NOT_SETUP")
        ELSE IF rest.hasRLSRecursionError
        THEN DatabaseStatus(FALSE, <<>>, "RLS_RECURSION_ERROR")
        ELSE IF Len(rest.missingTables) > 0
        THEN DatabaseStatus(FALSE, <<"profiles">> \o rest.missingTables,
                            "DATABASE_NOT_SETUP")
        ELSE DatabaseStatus(TRUE, <<>>, "")

\* the tables checkDatabaseSetup sends a probe for
ProbedTables(probes) ==
    IF probes["profiles"] # NoProbeError
    THEN {"profiles"}
    ELSE {requiredTables[i] : i \in 1..ProbeRest(probes, 2, <<>>).last}

\* what DatabaseSetupCheck returns from its render
Renders(check) ==
    IF check.isChecking THEN "checking"
    ELSE IF ~check.dbStatus.isNull /\ ~check.dbStatus.isSetup
    THEN IF \/ check.dbStatus.error = "DATABASE_NOT_SETUP"
            \/ Len(check.dbStatus.missingTables) = 4
         THEN "SetupInstructions"
         ELSE "Database Issues Detected"
    ELSE "children"

AllProbesOk == [t \in {requiredTables[i] : i \in 1..4} |-> NoProbeError]

\* the component when mounted: checking, no status yet
Mounted ==
    [probes |-> AllProbesOk, isChecking |-> TRUE, dbStatus |-> NoDatabaseStatus,
     skipSetupCheck |-> FALSE]

\* checkSetup, at mount and from the retry button of either screen
CheckSetup ==
    /\ Renders(setupCheck) # "children"
    /\ setupCheck' = [setupCheck EXCEPT
                        !.isChecking = FALSE,
                        !.dbStatus = checkDatabaseSetup(setupCheck.probes)]
    /\ UNCHANGED <<serverVars, otherMarkCall, requestVars, hospitalVars,
                   loginVars, clientVars, donorVars, authVars, notifVars>>

\* onSkip of the instructions screen
SkipSetupCheck ==
    /\ Renders(setupCheck) = "SetupInstructions"
    /\ ~setupCheck.skipSetupCheck
    /\ setupCheck' = [setupCheck EXCEPT !.skipSetupCheck = TRUE]
    /\ UNCHANGED <<serverVars, otherMarkCall, requestVars, hospitalVars,
                   loginVars, clientVars, donorVars, authVars, notifVars>>

----------------------------------------------------------------------------
(* AuthProvider *)

\* useState defaults, the mount effect's getSession() not yet resolved; the
\* browser holds the persisted session `session` (NoUser: none)
MountedProvider(session) ==
    [pending |-> TRUE, session |-> session, user |-> NoUser, profile |-> NoUser,
     loading |-> TRUE, fetches |-> [u \in UserIds |-> 0], signOut |-> "idle"]

\* fetchProfile(userId) up to its await: the select is sent
SendFetchProfile(p, userId) ==
    [p EXCEPT !.fetches[userId] = p.fetches[userId] + 1]

\* supabase.auth.getSession().then(...)
GetSessionResolves ==
    /\ provider.pending
    /\ provider' =
         IF provider.session # NoUser
         THEN SendFetchProfile([provider EXCEPT !.pending = FALSE,
                                                !.user = provider.session],
                               provider.session)
         ELSE [provider EXCEPT !.pending = FALSE, !.user = NoUser,
                               !.loading = FALSE]
    /\ UNCHANGED <<widgetVars, appVars>>

\* onAuthStateChange with a session (SIGNED_IN, TOKEN_REFRESHED,
\* USER_UPDATED): setSession, setUser, then fetchProfile is awaited
AuthStateSignedIn ==
    \E u \in UserIds :
        /\ provider.fetches[u] < MaxInFlight
        /\ provider' = SendFetchProfile([provider EXCEPT !.session = u, !.user = u], u)
        /\ UNCHANGED <<widgetVars, appVars>>

\* onAuthStateChange without a session (SIGNED_OUT), raised by signOut()
\* of the context, which then has its own continuation to run, or by a
\* supabase.auth.signOut() elsewhere
AuthStateSignedOut ==
    \E viaContext \in BOOLEAN :
        /\ provider.session # NoUser
        /\ provider.signOut = "idle"
        /\ provider' = [provider EXCEPT
                           !.session = NoUser, !.user = NoUser,
                           !.profile = NoUser, !.loading = FALSE,
                           !.signOut = IF viaContext THEN "returning" ELSE "idle"]
        /\ UNCHANGED <<widgetVars, appVars>>

\* signOut() after its await: setProfile(null)
SignOutReturns ==
    /\ provider.signOut = "returning"
    /\ provider' = [provider EXCEPT !.profile = NoUser, !.signOut = "idle"]
    /\ UNCHANGED <<widgetVars, appVars>>

\* refreshProfile(): if (user) await fetchProfile(user.id)
RefreshProfile ==
    /\ provider.user # NoUser
    /\ provider.fetches[provider.user] < MaxInFlight
    /\ provider' = SendFetchProfile(provider, provider.user)
    /\ UNCHANGED <<widgetVars, appVars>>

FetchOutcomes == {"row", "error", "exception"}

\* fetchProfile whose error branch returns without setLoading(false) and
\* without a finally block
FetchProfileSettlesSilently(userId, outcome) ==
    /\ provider.fetches[userId] > 0
    /\ provider' =
         [provider EXCEPT
            !.fetches[userId] = provider.fetches[userId] - 1,
            !.profile = IF outcome = "row" THEN userId ELSE provider.profile,
            !.loading = IF outcome = "row" THEN FALSE ELSE provider.loading]
    /\ UNCHANGED <<widgetVars, appVars>>

\* fetchProfile after its await: on an error setLoading(false) and return,
\* on a row setProfile(data), on an exception the catch; finally
\* setLoading(false). The profile is named by the id of its row.
FetchProfileSettles(userId, outcome) ==
    /\ provider.fetches[userId] > 0
    /\ provider' =
         [provider EXCEPT
            !.fetches[userId] = provider.fetches[userId] - 1,
            !.profile = IF outcome = "row" THEN userId ELSE provider.profile,
            !.loading = FALSE]
    /\ UNCHANGED <<widgetVars, appVars>>

FetchProfileAnswered ==
    \E userId \in UserIds, outcome \in FetchOutcomes :
        FetchProfileSettles(userId, outcome)

----------------------------------------------------------------------------
(* NotificationSystem *)

\* the notifications the signed-in donor can have
WidgetNotificationIds == {"n1", "n2"}

\* a list of notifications, by id: not in the list, in it with read false,
\* in it with read true. The widget reads its list through filter and map
\* only, so the order of the list is left out.
NoNotifications == [id \in WidgetNotificationIds |-> "none"]

\* data.notifications.filter(n => !n.read).length
UnreadOf(notifications) ==
    Cardinality({id \in WidgetNotificationIds : notifications[id] = "unread"})

\* useState defaults, nothing in flight
MountedWidget ==
    [notifications |-> NoNotifications, unreadCount |-> 0, polls |-> {},
     marksSent |-> [id \in WidgetNotificationIds |-> 0],
     marksAnswered |-> [id \in WidgetNotificationIds |-> 0]]

\* notify-donors writes a notification of the donor
NotificationArrives ==
    \E id \in WidgetNotificationIds :
        /\ inbox[id] = "none"
        /\ inbox' = [inbox EXCEPT ![id] = "unread"]
        /\ UNCHANGED <<widget, provider, appVars>>

\* fetchNotifications, on mount and on every tick of setInterval, whether
\* or not an earlier fetch is still in flight: the GET is served and its
\* answer, the donor's list at that moment, travels back
PollNotifications ==
    /\ Cardinality(widget.polls) < MaxPolls
    /\ widget' = [widget EXCEPT !.polls = widget.polls \cup {inbox}]
    /\ UNCHANGED <<inbox, provider, appVars>>

\* an answer of the GET arrives, in any order: with response.ok and
\* data.success the list and the count are set, otherwise nothing is
PollAnswered ==
    \E answer \in widget.polls, ok \in BOOLEAN :
        /\ widget' = IF ok
                     THEN [widget EXCEPT !.polls = widget.polls \ {answer},
                                         !.notifications = answer,
                                         !.unreadCount = UnreadOf(answer)]
                     ELSE [widget EXCEPT !.polls = widget.polls \ {answer}]
        /\ UNCHANGED <<inbox, provider, appVars>>

\* handleNotificationClick on a notification of the list: markAsRead sends
\* the PUT when the notification shown is unread
ClickNotification ==
    \E id \in WidgetNotificationIds :
        /\ widget.notifications[id] = "unread"
        /\ widget.marksSent[id] + widget.marksAnswered[id] < MaxMarks
        /\ widget' = [widget EXCEPT !.marksSent[id] = widget.marksSent[id] + 1]
        /\ UNCHANGED <<inbox, provider, appVars>>

\* the server serves the PUT: the stored notification gets read = true
MarkServed ==
    \E id \in WidgetNotificationIds :
        /\ widget.marksSent[id] > 0
        /\ inbox' = [inbox EXCEPT ![id] = "read"]
        /\ widget' = [widget EXCEPT !.marksSent[id] = widget.marksSent[id] - 1,
                                    !.marksAnswered[id] = widget.marksAnswered[id] + 1]
        /\ UNCHANGED <<provider, appVars>>

\* markAsRead after its await, response.ok: the notification of that id,
\* if the list has it, is shown read and the count goes down by one, not
\* below 0
MarkAnswered(id) ==
    /\ widget.marksAnswered[id] > 0
    /\ widget' = [widget EXCEPT
                    !.marksAnswered[id] = widget.marksAnswered[id] - 1,
                    !.notifications[id] =
                        IF widget.notifications[id] = "none" THEN "none" ELSE "read",
                    !.unreadCount =
                        IF widget.unreadCount - 1 > 0 THEN widget.unreadCount - 1 ELSE 0]
    /\ UNCHANGED <<inbox, provider, appVars>>

\* the PUT answered with an error status or the fetch threw: nothing is set
MarkFailed ==
    \E id \in WidgetNotificationIds :
        /\ widget.marksAnswered[id] > 0
        /\ widget' = [widget EXCEPT !.marksAnswered[id] = widget.marksAnswered[id] - 1]
        /\ UNCHANGED <<inbox, provider, appVars>>

----------------------------------------------------------------------------
(* fetchBloodRequests *)

\* blood_requests rows the query runs over: one per requester, hospital and
\* status; "u1" is the id of the user of AuthContexts
ListedRequests ==
    [requester_id : {"u1", "u2"}, hospital_id : HospitalIds,
     status : {"pending_verification", "active"}]

\* filters?: { status?, hospitalId?, requesterId? }
ListingFilters ==
    [status : {JsUndefined, JsString("active"), JsString("pending_verification")},
     hospitalId : OptionalHospitalIds,
     requesterId : {JsUndefined, JsString("u1"), JsString("u2")}]

\* the call not made yet
NoListing(filters) ==
    [filters |-> filters, called |-> FALSE, threw |-> FALSE, queried |-> FALSE,
     roleConditions |-> {}, data |-> {}]

\* query.eq(column, value)
Eq(column, value) == [column |-> column, value |-> value]

\* the rows a query with these eq() conditions selects
SelectRequests(conditions) ==
    {r \in ListedRequests : \A c \in conditions : r[c.column] = c.value.s}

\* "Apply additional filters": one eq() per filter that is truthy
FilterConditions(filters) ==
    (IF ValueTruthy(filters.status) THEN {Eq("status", filters.status)} ELSE {})
    \cup (IF ValueTruthy(filters.hospitalId)
          THEN {Eq("hospital_id", filters.hospitalId)} ELSE {})
    \cup (IF ValueTruthy(filters.requesterId)
          THEN {Eq("requester_id", filters.requesterId)} ELSE {})

\* "Apply role-based filtering": the conditions the branch of the caller's
\* role adds, the early return of an unaffiliated hospital_admin, or the
\* TypeError of authContext.user.id on a null user
RoleBranch(ctx, filters) ==
    IF ~ctx.profile.isNull /\ ctx.profile.role = "hospital_admin"
    THEN IF ValueTruthy(ctx.profile.hospital_id)
         THEN [kind |-> "query", conditions |-> {Eq("hospital_id", ctx.profile.hospital_id)}]
         ELSE [kind |-> "empty", conditions |-> {}]
    ELSE IF ~ctx.profile.isNull /\ ctx.profile.role = "individual"
    THEN IF ValueTruthy(filters.requesterId)
         THEN IF ctx.user.t = "null"
              THEN [kind |-> "throws", conditions |-> {}]
              ELSE [kind |-> "query",
                    conditions |-> {Eq("requester_id", JsString(ctx.user.s))}]
         ELSE [kind |-> "query", conditions |-> {Eq("status", JsString("active"))}]
    ELSE [kind |-> "query", conditions |-> {}]

\* fetchBloodRequests(authContext, filters): data of the value returned
fetchBloodRequests(ctx, filters) ==
    LET branch == RoleBranch(ctx, filters)
    IN  CASE branch.kind = "empty" ->
               [NoListing(filters) EXCEPT !.called = TRUE]
          [] branch.kind = "throws" ->
               [NoListing(filters) EXCEPT !.called = TRUE, !.threw = TRUE]
          [] OTHER ->
               [NoListing(filters) EXCEPT
                  !.called = TRUE, !.queried = TRUE,
                  !.roleConditions = branch.conditions,
                  !.data = SelectRequests(branch.conditions
                                            \cup FilterConditions(filters))]

CallFetchBloodRequests ==
    /\ ~listing.called
    /\ listing' = fetchBloodRequests(authContext, listing.filters)
    /\ UNCHANGED <<provider, widgetVars, signInFlow, donorVars, authVars,
                   notifVars, serverVars, otherMarkCall, requestVars,
                   hospitalVars, loginVars, setupVars>>

\* the caller asks for another list
ChangeFilters ==
    \E filters \in ListingFilters :
        /\ listing.called
        /\ listing' = NoListing(filters)
        /\ UNCHANGED <<provider, widgetVars, signInFlow, donorVars, authVars,
                       notifVars, serverVars, otherMarkCall, requestVars,
                       hospitalVars, loginVars, setupVars>>

----------------------------------------------------------------------------
(* Login inside AuthProvider: the sign-in with its role check *)

\* App.tsx renderPage: the Login pages with the role they are rendered for
LoginPages == {"login", "hospital-login", "admin-login"}

RoleOfPage(page) ==
    CASE page = "login" -> "individual"
      [] page = "hospital-login" -> "hospital_admin"
      [] page = "admin-login" -> "platform_admin"

\* the portal of a role: roleConfig[role].redirectPage and the page names
\* of the redirect branches
PortalOf(role) ==
    CASE role = "individual" -> "dashboard"
      [] role = "hospital_admin" -> "hospital"
      [] role = "platform_admin" -> "admin"

PortalPages == {PortalOf(role) : role \in UserRoleEnum}

\* Login.tsx holds two versions of the component: "effect" reads the auth
\* context and redirects from an effect, "direct" navigates at the end of
\* handleSignIn
LoginVersions == {"effect", "direct"}

VerifyRoleMessage == "Error verifying user role. Please try again."

\* a Login page shown, nothing submitted
LoginShown(version, page) ==
    [version |-> version, page |-> page, pc |-> "idle", user |-> NoUser,
     role |-> "", error |-> ""]

\* onAuthStateChange without a session, as supabase.auth.signOut() called
\* from Login raises it
SignedOutByLogin(p) ==
    [p EXCEPT !.session = NoUser, !.user = NoUser, !.profile = NoUser,
              !.loading = FALSE]

\* handleSignIn up to its second await, with the valid credentials of u:
\* signInWithPassword succeeds, AuthProvider gets SIGNED_IN and sends its
\* fetchProfile, Login sends the select of the profile's role
SubmitSignIn ==
    \E u \in UserIds :
        /\ signInFlow.page \in LoginPages
        /\ signInFlow.pc = "idle"
        /\ provider.session = NoUser
        /\ provider.fetches[u] < MaxInFlight
        /\ ~profileTable[u].isNull
        /\ signInFlow' = [signInFlow EXCEPT
                            !.pc = "checking", !.user = u,
                            !.role = RoleOfPage(signInFlow.page), !.error = ""]
        /\ provider' = SendFetchProfile([provider EXCEPT !.session = u, !.user = u], u)
        /\ UNCHANGED flowRest

\* handleSignIn after the select of the role: an error of the select ends
\* the flow with its message; a role other than the page's sets the error
\* and signs out; otherwise the "direct" version navigates to the portal
\* of the role. The continuation runs whether or not Login is still shown.
RoleCheckAnswered ==
    \E fails \in BOOLEAN :
        LET u == signInFlow.user
            role == profileTable[u].role
        IN  /\ signInFlow.pc = "checking"
            /\ IF fails
               THEN /\ signInFlow' = [signInFlow EXCEPT !.pc = "done",
                                                        !.error = VerifyRoleMessage]
                    /\ UNCHANGED provider
               ELSE IF role # signInFlow.role
               THEN /\ signInFlow' = [signInFlow EXCEPT !.pc = "done",
                                                        !.error = NotAuthorizedMessage]
                    /\ provider' = SignedOutByLogin(provider)
               ELSE /\ signInFlow' =
                         [signInFlow EXCEPT
                            !.pc = "done",
                            !.page = IF signInFlow.version = "direct"
                                     THEN PortalOf(role) ELSE signInFlow.page]
                    /\ UNCHANGED provider
            /\ UNCHANGED flowRest

\* the condition of the redirect effect on a Login page of the "effect"
\* version: !loading && user && profile
RedirectPending ==
    /\ signInFlow.version = "effect"
    /\ signInFlow.page \in LoginPages
    /\ ~provider.loading
    /\ provider.user # NoUser
    /\ provider.profile # NoUser

\* the effect runs after the render that made its condition true: every
\* branch navigates to the portal of profile.role
RedirectEffect ==
    /\ RedirectPending
    /\ signInFlow' = [signInFlow EXCEPT
                        !.page = PortalOf(profileTable[provider.profile].role)]
    /\ UNCHANGED <<provider, flowRest>>

\* navigate(...) back to a Login page once the flow is over and nobody is
\* signed in
OpenLoginPage ==
    \E page \in LoginPages :
        /\ signInFlow.pc = "done"
        /\ provider.session = NoUser
        /\ signInFlow' = LoginShown(signInFlow.version, page)
        /\ UNCHANGED <<provider, flowRest>>

----------------------------------------------------------------------------
(* Specifications *)

DonorsIdle ==
    /\ profiles = [i \in 1..NumProfiles |->
                     [role |-> "individual", profile_complete |-> FALSE,
                      availability_status |-> "Available",
                      blood_group |-> "Not Set"]]
    /\ compatCall = NoCompatCall
    /\ findResp = NoFindResp

AuthIdle ==
    /\ authContext = SignedOutContext
    /\ hospitalArg = JsUndefined
    /\ authCall = NoAuthCall

NotifIdle ==
    /\ kv = EmptyStore
    /\ clock = 0
    /\ uuidCount = 0
    /\ notifyCalls = [c \in 1..MaxNotifyCalls |-> IdleCall]
    /\ markCall = NoMarkCall
    /\ resp = NoResp

ServerIdle ==
    /\ httpRequest = NoRequest
    /\ profileTable = [u \in UserIds |-> NullProfile]

RequestsIdle ==
    /\ blood_requests = [id \in RequestIds |-> NoRequestRow]
    /\ verifyCall = NoVerifyCall

HospitalsIdle ==
    /\ hospitals = SampleHospitals
    /\ hospitalForm = NoHospitalForm

NoAccounts == [u \in UserIds |-> NoAccount]

\* no account yet, nobody signed in
LoginIdle ==
    /\ authServer = [confirmEmail |-> TRUE, accounts |-> NoAccounts]
    /\ login = SignedOut

SetupIdle == setupCheck = Mounted

WidgetIdle == inbox = NoNotifications /\ widget = MountedWidget

NoFilters ==
    [status |-> JsUndefined, hospitalId |-> JsUndefined, requesterId |-> JsUndefined]

ListingIdle == listing = NoListing(NoFilters)

FlowIdle == signInFlow = LoginShown("effect", "login")

ClientIdle ==
    provider = MountedProvider(NoUser) /\ WidgetIdle /\ ListingIdle /\ FlowIdle

UiIdle == HospitalsIdle /\ LoginIdle /\ SetupIdle /\ ClientIdle

RestIdle == ServerIdle /\ otherMarkCall = NoMarkCall /\ RequestsIdle /\ UiIdle

Init == DonorsIdle /\ AuthIdle /\ NotifIdle /\ RestIdle

Next ==
    \/ \E c \in 1..MaxNotifyCalls : NotifyStart(c)
    \/ \E c \in 1..MaxNotifyCalls : NotifyWritePrimary(c)
    \/ \E c \in 1..MaxNotifyCalls : NotifyWriteIndex(c)
    \/ \E c \in 1..MaxNotifyCalls : NotifyWriteFails(c)
    \/ \E c \in 1..MaxNotifyCalls : NotifyRespond(c)
    \/ GetNotifications
    \/ MarkReadGet
    \/ MarkReadSet
    \/ MarkReadFails

Spec == Init /\ [][Next]_vars

InitDonors ==
    /\ profiles \in [1..NumProfiles -> ProfileRow]
    /\ compatCall = NoCompatCall
    /\ findResp = NoFindResp
    /\ AuthIdle
    /\ NotifIdle
    /\ RestIdle

NextDonors == FindDonors \/ CallGetCompatibleDonors

SpecDonors == InitDonors /\ [][NextDonors]_vars

InitAuth ==
    /\ authContext \in AuthContexts
    /\ hospitalArg \in OptionalHospitalIds
    /\ authCall = NoAuthCall
    /\ DonorsIdle
    /\ NotifIdle
    /\ RestIdle

NextAuth ==
    \/ CallProviderCanAccessHospital
    \/ CallUtilsCanAccessHospital
    \/ CallProviderCanManageBloodRequests
    \/ CallUtilsCanManageBloodRequests
    \/ CallHasRole("provider")
    \/ CallHasRole("utils")
    \/ CallHasAnyRole("provider")
    \/ CallHasAnyRole("utils")

SpecAuth == InitAuth /\ [][NextAuth]_vars

\* the server with one signed-up user, x, whose profile row was created at
\* sign-up; y has an account and no profile row
InitServer ==
    /\ httpRequest = NoRequest
    /\ profileTable =
          [u \in UserIds |->
              IF u = <<"x">>
              THEN [isNull |-> FALSE, role |-> "individual", hospital_id |-> JsNull]
              ELSE NullProfile]
    /\ otherMarkCall = NoMarkCall
    /\ RequestsIdle
    /\ UiIdle
    /\ DonorsIdle
    /\ AuthIdle
    /\ NotifIdle

NextServer ==
    \/ Receive
    \/ Unauthenticated
    \/ ServeHealth
    \/ ServePlatformStats
    \/ ServeHospitalAnalytics
    \/ ServeFindDonors
    \/ ServeNotifyDonors
    \/ NotifyWritePrimary(1)
    \/ NotifyWriteIndex(1)
    \/ NotifyWriteFails(1)
    \/ NotifyRespond(1)
    \/ ServeNotifications
    \/ ServeMarkRead
    \/ MarkReadSet
    \/ MarkReadFails
    \/ UpdateProfile

SpecServer == InitServer /\ [][NextServer]_vars

\* the writers of the store, with two mark-read invocations at a time
NextMarks ==
    \/ \E c \in 1..MaxNotifyCalls : NotifyStart(c)
    \/ \E c \in 1..MaxNotifyCalls : NotifyWritePrimary(c)
    \/ \E c \in 1..MaxNotifyCalls : NotifyWriteIndex(c)
    \/ \E c \in 1..MaxNotifyCalls : NotifyWriteFails(c)
    \/ \E c \in 1..MaxNotifyCalls : NotifyRespond(c)
    \/ MarkReadGet
    \/ MarkReadSet
    \/ MarkReadFails
    \/ OtherMarkReadGet
    \/ OtherMarkReadSet
    \/ OtherMarkReadFails

SpecMarks == Init /\ [][NextMarks]_vars

\* notify-donors invocations received while earlier ones are still writing:
\* the store writes of the calls interleave in every order
NextFanOut ==
    \/ \E c \in 1..MaxNotifyCalls : NotifyBegin(c)
    \/ \E c \in 1..MaxNotifyCalls : NotifyWritePrimary(c)
    \/ \E c \in 1..MaxNotifyCalls : NotifyWriteIndex(c)
    \/ \E c \in 1..MaxNotifyCalls : NotifyWriteFails(c)
    \/ \E c \in 1..MaxNotifyCalls : NotifyRespond(c)

SpecFanOut == Init /\ [][NextFanOut]_vars

\* two signed-up users and no blood request yet
InitRequests ==
    /\ httpRequest = NoRequest
    /\ profileTable =
          [u \in UserIds |->
              [isNull |-> FALSE, role |-> "individual", hospital_id |-> JsNull]]
    /\ otherMarkCall = NoMarkCall
    /\ RequestsIdle
    /\ UiIdle
    /\ DonorsIdle
    /\ AuthIdle
    /\ NotifIdle

NextRequests ==
    \/ CreateRequest
    \/ UpdateOwnRequest
    \/ UpdateProfile
    \/ VerifyStart
    \/ VerifySelect
    \/ VerifyUpdate

SpecRequests == InitRequests /\ [][NextRequests]_vars

\* the setup script has run, sample rows included; x signed up as an
\* individual and y was made platform_admin as the script's last step tells
InitHospitals ==
    /\ httpRequest = NoRequest
    /\ profileTable =
          [u \in UserIds |->
              [isNull |-> FALSE,
               role |-> IF u = <<"y">> THEN "platform_admin" ELSE "individual",
               hospital_id |-> JsNull]]
    /\ otherMarkCall = NoMarkCall
    /\ RequestsIdle
    /\ UiIdle
    /\ DonorsIdle
    /\ AuthIdle
    /\ NotifIdle

NextHospitals ==
    \/ SubmitApplication
    \/ SendApproveHospital
    \/ SendRejectHospital

SpecHospitals == InitHospitals /\ [][NextHospitals]_vars

\* the Login page of either version against an auth service without accounts
NextLogin ==
    \/ EagerSignUp
    \/ DeferredSignUp
    \/ ConfirmEmail
    \/ CheckedSignIn
    \/ LazySignIn
    \/ SignOut

\* the project asks for e-mail confirmation at sign-up, or does not
InitLogin ==
    /\ authServer \in [confirmEmail : BOOLEAN, accounts : {NoAccounts}]
    /\ login = SignedOut
    /\ HospitalsIdle
    /\ SetupIdle
    /\ ClientIdle
    /\ ServerIdle
    /\ otherMarkCall = NoMarkCall
    /\ RequestsIdle
    /\ DonorsIdle
    /\ AuthIdle
    /\ NotifIdle

SpecLogin == InitLogin /\ [][NextLogin]_vars

NextSetup ==
    \/ CheckSetup
    \/ SkipSetupCheck

\* the component is mounted over a database that answers the four probes
\* one way or another
InitSetup ==
    /\ setupCheck \in {[Mounted EXCEPT !.probes = probes] :
                          probes \in [DOMAIN AllProbesOk -> ProbeOutcomes]}
    /\ HospitalsIdle
    /\ LoginIdle
    /\ ClientIdle
    /\ ServerIdle
    /\ otherMarkCall = NoMarkCall
    /\ RequestsIdle
    /\ DonorsIdle
    /\ AuthIdle
    /\ NotifIdle

SpecSetup == InitSetup /\ [][NextSetup]_vars

\* AuthProvider mounted in a browser that holds a persisted session or none
InitProvider ==
    /\ provider \in {MountedProvider(session) : session \in {NoUser} \cup UserIds}
    /\ WidgetIdle
    /\ ListingIdle
    /\ FlowIdle
    /\ HospitalsIdle
    /\ LoginIdle
    /\ SetupIdle
    /\ ServerIdle
    /\ otherMarkCall = NoMarkCall
    /\ RequestsIdle
    /\ DonorsIdle
    /\ AuthIdle
    /\ NotifIdle

NextProvider ==
    \/ GetSessionResolves
    \/ AuthStateSignedIn
    \/ AuthStateSignedOut
    \/ SignOutReturns
    \/ RefreshProfile
    \/ FetchProfileAnswered

SpecProvider == InitProvider /\ [][NextProvider]_vars

\* every call settles: the getSession() promise resolves and every
\* fetchProfile select is answered
SpecProviderLive ==
    /\ SpecProvider
    /\ WF_vars(GetSessionResolves)
    /\ WF_vars(FetchProfileAnswered)

\* the widget mounted for a signed-in donor who has no notification yet
InitWidget ==
    /\ WidgetIdle
    /\ provider = MountedProvider(NoUser)
    /\ ListingIdle
    /\ FlowIdle
    /\ HospitalsIdle
    /\ LoginIdle
    /\ SetupIdle
    /\ ServerIdle
    /\ otherMarkCall = NoMarkCall
    /\ RequestsIdle
    /\ DonorsIdle
    /\ AuthIdle
    /\ NotifIdle

NextWidget ==
    \/ NotificationArrives
    \/ PollNotifications
    \/ PollAnswered
    \/ ClickNotification
    \/ MarkServed
    \/ \E id \in WidgetNotificationIds : MarkAnswered(id)
    \/ MarkFailed

SpecWidget == InitWidget /\ [][NextWidget]_vars

\* fetchBloodRequests called with every authorization context
InitListing ==
    /\ authContext \in AuthContexts
    /\ hospitalArg = JsUndefined
    /\ authCall = NoAuthCall
    /\ ListingIdle
    /\ FlowIdle
    /\ provider = MountedProvider(NoUser)
    /\ WidgetIdle
    /\ HospitalsIdle
    /\ LoginIdle
    /\ SetupIdle
    /\ ServerIdle
    /\ otherMarkCall = NoMarkCall
    /\ RequestsIdle
    /\ DonorsIdle
    /\ NotifIdle

NextListing == CallFetchBloodRequests \/ ChangeFilters

SpecListing == InitListing /\ [][NextListing]_vars

\* a Login page of either version shown inside a freshly mounted
\* AuthProvider; x is an individual, y a hospital_admin
InitSignIn ==
    /\ signInFlow \in {LoginShown(version, page) :
                          version \in LoginVersions, page \in LoginPages}
    /\ provider = MountedProvider(NoUser)
    /\ httpRequest = NoRequest
    /\ profileTable =
          [u \in UserIds |->
              [isNull |-> FALSE,
               role |-> IF u = <<"x">> THEN "individual" ELSE "hospital_admin",
               hospital_id |-> JsNull]]
    /\ WidgetIdle
    /\ listing = NoListing(NoFilters)
    /\ HospitalsIdle
    /\ LoginIdle
    /\ SetupIdle
    /\ otherMarkCall = NoMarkCall
    /\ RequestsIdle
    /\ DonorsIdle
    /\ AuthIdle
    /\ NotifIdle

\* an effect whose condition holds runs before the next answer or event is
\* handled
NextSignIn ==
    \/ RedirectEffect
    \/ ~RedirectPending /\ GetSessionResolves
    \/ ~RedirectPending /\ FetchProfileAnswered
    \/ ~RedirectPending /\ SubmitSignIn
    \/ ~RedirectPending /\ RoleCheckAnswered
    \/ ~RedirectPending /\ OpenLoginPage

SpecSignIn == InitSignIn /\ [][NextSignIn]_vars

----------------------------------------------------------------------------
(* Transfusion rules, stated independently of the table *)

Antigens(t) ==
    CASE t \in {"A+", "A-"}   -> {"A"}
      [] t \in {"B+", "B-"}   -> {"B"}
      [] t \in {"AB+", "AB-"} -> {"A", "B"}
      [] t \in {"O+", "O-"}   -> {}

RhPositive(t) == t \in {"A+", "B+", "AB+", "O+"}

MedicalDonors(r) ==
    {d \in CanonicalBloodTypes :
        /\ Antigens(d) \subseteq Antigens(r)
        /\ (~RhPositive(d) \/ RhPositive(r))}

IsExactSet(v, S) ==
    /\ v.type = "array"
    /\ Range(v.elems) = S
    /\ Len(v.elems) = Cardinality(S)

\* C1: getCompatibleDonors returns exactly the medically correct donor set
\* for each of the 8 canonical blood types and the empty set for every
\* other input string.
C1_CompatibleDonorsTotal ==
    compatCall.called =>
        IF compatCall.arg \in CanonicalBloodTypes
        THEN IsExactSet(compatCall.ret, MedicalDonors(compatCall.arg))
        ELSE IsExactSet(compatCall.ret, {})

\* C2: the donors returned by POST /find-donors are individuals with a
\* complete profile, availability Available and a blood group in the
\* compatible set of the requested type; never an A+ donor for A-, never a
\* profile whose blood group is 'Not Set'; an error answer carries no donor.
C2_FindDonorsFilter ==
    /\ findResp.status # 200 => findResp.donors = {}
    /\ \A i \in findResp.donors :
         /\ profiles[i].role = "individual"
         /\ profiles[i].profile_complete
         /\ profiles[i].availability_status = "Available"
         /\ profiles[i].blood_group \in MedicalDonors(findResp.blood_group_needed)
         /\ profiles[i].blood_group
                \in Range(getCompatibleDonors(findResp.blood_group_needed).elems)
         /\ findResp.blood_group_needed = "A-" => profiles[i].blood_group # "A+"
         /\ profiles[i].blood_group # "Not Set"

C2_Witness ==
    /\ findResp.status = 200
    /\ findResp.blood_group_needed = "A-"
    /\ findResp.donors # {}


----------------------------------------------------------------------------
(* The hospital-access policy as the specification words it *)

HospitalAccessPolicy(profile, h) ==
    /\ ~profile.isNull
    /\ CASE profile.role = "platform_admin" -> TRUE
         [] profile.role = "hospital_admin" ->
                profile.hospital_id.t = "string" /\ profile.hospital_id = h
         [] OTHER -> FALSE

\* "no specific hospital" means "any"
RequestManagementPolicy(profile, h) ==
    /\ ~profile.isNull
    /\ CASE profile.role = "platform_admin" -> TRUE
         [] profile.role = "hospital_admin" ->
                IF h.t = "string"
                THEN profile.hospital_id.t = "string" /\ profile.hospital_id = h
                ELSE TRUE
         [] OTHER -> FALSE

C10_ManagePolicy ==
    authCall.fn = "canManageBloodRequests" =>
        authCall.ret = RequestManagementPolicy(authContext.profile, hospitalArg)

----------------------------------------------------------------------------
(* Notification properties *)

PrimaryKeysOf(store) == {k \in DOMAIN store : IsPrimaryKey(k)}
IndexKeysOf(store) == {k \in DOMAIN store : IsIndexKey(k)}

HasPrimary(n) ==
    /\ PrimaryKey(n.id) \in DOMAIN kv
    /\ kv[PrimaryKey(n.id)].kind = "notification"
    /\ kv[PrimaryKey(n.id)].rec \in {n, [n EXCEPT !.read = TRUE]}

HasIndex(n) ==
    /\ IndexKey(n.donor_id, n.id) \in DOMAIN kv
    /\ kv[IndexKey(n.donor_id, n.id)] = KvId(n.id)

Returned(n) == \E j \in 1..Len(resp.notifications) : resp.notifications[j].id = n.id

\* store writes a call has completed
PrimariesWritten(call) ==
    IF call.pc = "idle" THEN 0
    ELSE (call.next - 1) + (IF call.stage = "index" THEN 1 ELSE 0)

IndexesWritten(call) == IF call.pc = "idle" THEN 0 ELSE call.next - 1

RECURSIVE SumOver(_, _)
SumOver(F(_), n) == IF n = 0 THEN 0 ELSE F(notifyCalls[n]) + SumOver(F, n - 1)

Succeeded(c) == notifyCalls[c].pc = "done" /\ notifyCalls[c].status = 200

\* C3: the list returned by GET /notifications/X to caller X contains only
\* notifications whose donor_id equals X.
C3_ReaderOnlyOwnNotifications ==
    (resp.op = "read" /\ resp.status = 200) =>
        \A j \in 1..Len(resp.notifications) :
            resp.notifications[j].donor_id = resp.caller

\* C4: a notify-donors call that answers 200 for N donor identifiers has
\* added exactly N primary and N index records, reports
\* notifications_count = N, each record unread with the request's urgency
\* and request_id, and a later read by a listed donor returns the donor's
\* notification.
C4_FanOutWritesAll ==
    /\ Cardinality(PrimaryKeysOf(kv)) = SumOver(PrimariesWritten, MaxNotifyCalls)
    /\ Cardinality(IndexKeysOf(kv)) = SumOver(IndexesWritten, MaxNotifyCalls)
    /\ \A c \in 1..MaxNotifyCalls :
         Succeeded(c) =>
            LET call == notifyCalls[c]
                N == Len(call.donor_ids.items)
            IN  /\ call.notifications_count = N
                /\ Len(call.notifications) = N
                /\ Cardinality({call.notifications[i].id : i \in 1..N}) = N
                /\ \A i \in 1..N :
                     LET n == call.notifications[i]
                     IN  /\ n.donor_id = call.donor_ids.items[i]
                         /\ n.request_id = call.request_id
                         /\ n.urgency = BloodRequests[call.request_id].urgency
                         /\ n.read = FALSE
                         /\ HasPrimary(n)
                         /\ n.id \notin NotificationIdInputs
                               => kv[PrimaryKey(n.id)].rec.read = FALSE
                         /\ HasIndex(n)
                         /\ (resp.op = "read" /\ resp.status = 200
                               /\ resp.caller = n.donor_id) => Returned(n)

C4_Witness ==
    /\ resp.op = "read" /\ resp.status = 200 /\ resp.caller = <<"y">>
    /\ Len(resp.notifications) = 2
    /\ \E c \in 1..MaxNotifyCalls :
         Succeeded(c) /\ notifyCalls[c].notifications_count = 2

\* C5: the reader answers 403 whenever the caller differs from :donor_id,
\* and then returns no notification and has read nothing from the store.
C5_ForeignReaderRejected ==
    (resp.op = "read" /\ resp.caller # resp.donorId) =>
        /\ resp.status = 403
        /\ resp.notifications = <<>>
        /\ resp.kvReads = 0

C5_Witness ==
    /\ resp.op = "read" /\ resp.status = 403
    /\ kvGetByPrefix(kv, DonorPrefix(resp.donorId)) # {}

\* C6: for an authorized caller the reader returns exactly the primary
\* records its index keys resolve to, one per index key whose primary
\* exists, newest first.
C6_ReaderExactAndSorted ==
    (resp.op = "read" /\ resp.status = 200) =>
        LET indexKeys == {k \in DOMAIN kv : IsPrefix(DonorPrefix(resp.caller), k)}
            resolving == {k \in indexKeys : PrimaryKey(kv[k].ref) \in DOMAIN kv}
            list == resp.notifications
        IN  /\ Len(list) = Cardinality(resolving)
            /\ {list[j] : j \in 1..Len(list)}
                  = {kv[PrimaryKey(kv[k].ref)].rec : k \in resolving}
            /\ \A j \in 1..(Len(list) - 1) :
                  GetTime(list[j].created_at) >= GetTime(list[j + 1].created_at)

C6_Witness ==
    /\ resp.op = "read" /\ resp.status = 200
    /\ Len(resp.notifications) >= 2
    /\ GetTime(resp.notifications[1].created_at)
          > GetTime(resp.notifications[Len(resp.notifications)].created_at)

\* successful invocations with the same body as invocation c
SameBody(c) ==
    {b \in 1..MaxNotifyCalls :
        /\ Succeeded(b)
        /\ notifyCalls[b].request_id = notifyCalls[c].request_id
        /\ notifyCalls[b].donor_ids = notifyCalls[c].donor_ids}

\* every successful invocation for the request of c has the body of c, and
\* none is in flight
OnlyBodyForRequest(c) ==
    \A b \in 1..MaxNotifyCalls :
        (notifyCalls[b].pc # "idle" /\ notifyCalls[b].request_id = notifyCalls[c].request_id)
            => b \in SameBody(c)

ReturnedForRequest(r) ==
    Cardinality({j \in 1..Len(resp.notifications) : resp.notifications[j].request_id = r})

RecordsOf(calls) ==
    UNION {{notifyCalls[b].notifications[i] : i \in 1..Len(notifyCalls[b].notifications)} :
             b \in calls}

NoDeduplication(c) ==
    LET k == Cardinality(SameBody(c))
        N == Len(notifyCalls[c].donor_ids.items)
        records == RecordsOf(SameBody(c))
    IN  /\ Cardinality({n.id : n \in records}) = k * N
        /\ Cardinality({PrimaryKey(n.id) : n \in records} \cap DOMAIN kv) = k * N
        /\ Cardinality({IndexKey(n.donor_id, n.id) : n \in records} \cap DOMAIN kv) = k * N

\* entries of a list that a reader for donor d finds under its prefix
EntriesUnder(d, list) ==
    {i \in 1..Len(list) : list[i] = d \/ IsPrefix(d \o <<":">>, list[i])}

\* C7 (as claimed): k invocations with the same request_id and the same N
\* donor identifiers leave k*N primary and k*N index records, and each
\* listed donor's reader returns k notifications for that request.
C7_DuplicatesPerDonor ==
    \A c \in 1..MaxNotifyCalls :
        (Succeeded(c) /\ OnlyBodyForRequest(c)) =>
            /\ NoDeduplication(c)
            /\ (resp.op = "read" /\ resp.status = 200
                  /\ \E i \in 1..Len(notifyCalls[c].donor_ids.items) :
                        notifyCalls[c].donor_ids.items[i] = resp.caller)
                 => ReturnedForRequest(notifyCalls[c].request_id)
                        = Cardinality(SameBody(c))

\* C7 (amended): k*N primary and k*N index records; a listed donor's reader
\* returns, for that request, k notifications for every entry of the list
\* that is the donor's id or starts with the donor's id and a colon, so at
\* least k.
C7_DuplicatesPerEntry ==
    \A c \in 1..MaxNotifyCalls :
        (Succeeded(c) /\ OnlyBodyForRequest(c)) =>
            /\ NoDeduplication(c)
            /\ (resp.op = "read" /\ resp.status = 200
                  /\ \E i \in 1..Len(notifyCalls[c].donor_ids.items) :
                        notifyCalls[c].donor_ids.items[i] = resp.caller)
                 => /\ ReturnedForRequest(notifyCalls[c].request_id)
                         = Cardinality(SameBody(c))
                             * Cardinality(EntriesUnder(resp.caller,
                                                        notifyCalls[c].donor_ids.items))
                    /\ ReturnedForRequest(notifyCalls[c].request_id)
                         >= Cardinality(SameBody(c))

C7_Witness ==
    /\ resp.op = "read" /\ resp.status = 200 /\ resp.caller = <<"y">>
    /\ \E c \in 1..MaxNotifyCalls :
         /\ Succeeded(c) /\ OnlyBodyForRequest(c)
         /\ Cardinality(SameBody(c)) = 2
         /\ notifyCalls[c].donor_ids.items = << <<"y">>, <<"y">> >>
         /\ ReturnedForRequest(notifyCalls[c].request_id) = 4

\* C8: after a store write failed the call has answered 500, the records
\* written before the failure are still stored and returned to their
\* donors, the later donors have no record, and a call answered 400 or 404
\* has written nothing.
C8_PartialFailureKept ==
    /\ Cardinality(PrimaryKeysOf(kv)) = SumOver(PrimariesWritten, MaxNotifyCalls)
    /\ Cardinality(IndexKeysOf(kv)) = SumOver(IndexesWritten, MaxNotifyCalls)
    /\ \A c \in 1..MaxNotifyCalls :
         LET call == notifyCalls[c]
         IN  /\ (call.pc = "done" /\ call.status \in {400, 404}) =>
                    /\ call.notifications = <<>>
                    /\ PrimariesWritten(call) = 0
                    /\ IndexesWritten(call) = 0
             /\ (call.pc = "done" /\ call.status = 500) =>
                  \A i \in 1..Len(call.notifications) :
                     LET n == call.notifications[i]
                     IN  /\ i < call.next =>
                               /\ HasPrimary(n)
                               /\ HasIndex(n)
                               /\ (resp.op = "read" /\ resp.status = 200
                                     /\ resp.caller = n.donor_id) => Returned(n)
                         /\ i = call.next =>
                               /\ (PrimaryKey(n.id) \in DOMAIN kv) = (call.stage = "index")
                               /\ IndexKey(n.donor_id, n.id) \notin DOMAIN kv
                         /\ i > call.next =>
                               /\ PrimaryKey(n.id) \notin DOMAIN kv
                               /\ IndexKey(n.donor_id, n.id) \notin DOMAIN kv

C8_Witness ==
    /\ resp.op = "read" /\ resp.status = 200 /\ resp.caller = <<"x">>
    /\ Len(resp.notifications) = 1
    /\ \E c \in 1..MaxNotifyCalls :
         /\ notifyCalls[c].pc = "done" /\ notifyCalls[c].status = 500
         /\ notifyCalls[c].next = 2
         /\ Returned(notifyCalls[c].notifications[1])

----------------------------------------------------------------------------
(* The analytics endpoints and the middleware *)

\* the profile row of the caller the answer went to
CallerProfile == profileTable[resp.caller]

AnsweredByHandler(route) == resp.op = route /\ resp.status # 401

\* C11: GET /analytics/hospital/:hospital_id returns statistics only to a
\* platform_admin or to a hospital_admin whose hospital_id is :hospital_id;
\* every other authenticated caller (a hospital admin of another hospital, an
\* individual whatever its hospital_id, a caller without a profile row) gets
\* 403 and no statistics.
C11_HospitalAnalyticsPolicy ==
    AnsweredByHandler("hospital-analytics") =>
        LET allowed ==
                /\ ~CallerProfile.isNull
                /\ \/ CallerProfile.role = "platform_admin"
                   \/ /\ CallerProfile.role = "hospital_admin"
                      /\ CallerProfile.hospital_id = JsString(httpRequest.hospital_id)
        IN  /\ resp.stats.present => allowed /\ resp.status = 200
            /\ ~allowed => resp.status = 403 /\ ~resp.stats.present

\* C12: GET /analytics/platform-stats answers 403 without statistics unless
\* the caller's profile row exists and has role platform_admin, the role being
\* the one stored when the call is made.
C12_PlatformStatsPolicy ==
    AnsweredByHandler("platform-stats") =>
        LET admin == ~CallerProfile.isNull /\ CallerProfile.role = "platform_admin"
        IN  /\ resp.stats.present => admin /\ resp.status = 200
            /\ ~admin => resp.status = 403 /\ ~resp.stats.present
            /\ resp.status \in {200, 403}
            /\ resp.status = 200 => resp.stats.present

\* x, whose row was rewritten to another role after sign-up, is refused
C12_Witness ==
    /\ AnsweredByHandler("platform-stats")
    /\ resp.status = 403
    /\ resp.caller = <<"x">>
    /\ CallerProfile.role = "hospital_admin"

\* a header the middleware must refuse: absent, not starting with 'Bearer ',
\* or carrying a token that resolves to no user
HeaderRefused(h) ==
    \/ ~h.present
    \/ ~IsPrefix(BearerPrefix, h.value)
    \/ SubSeq(h.value, Len(BearerPrefix) + 1, Len(h.value)) \notin DOMAIN AuthSessions

\* the same request arrives once more: nothing is answered yet
SameRequestAgain == httpRequest' = httpRequest /\ resp' = NoResp

\* C13: on every route but /health, the server's step for a request whose
\* Authorization header is absent, does not start with 'Bearer ' or carries
\* a token that resolves to no user is the 401 answer, with no table or
\* key-value read or write; /health answers 200 whatever the header.
C13_UnauthenticatedRejected ==
    [][(httpRequest' = httpRequest /\ profileTable' = profileTable) =>
         /\ (httpRequest.route \in ProtectedRoutes /\ HeaderRefused(httpRequest.header)) =>
                /\ \/ SameRequestAgain
                   \/ /\ resp'.op = httpRequest.route
                      /\ resp'.status = 401
                      /\ resp'.kvReads = 0
                      /\ resp'.tableReads = 0
                      /\ ~resp'.stats.present
                      /\ resp'.notifications = <<>>
                /\ UNCHANGED <<kv, clock, uuidCount, notifyCalls, markCall,
                               profiles, findResp>>
         /\ httpRequest.route = "health" =>
                \/ SameRequestAgain
                \/ resp'.op = "health" /\ resp'.status = 200]_vars

\* a mark-read request with a token that resolves to nobody is refused while
\* the store holds an unread notification it names
C13_Witness ==
    /\ httpRequest.route = "mark-read"
    /\ httpRequest.header = Header(BearerPrefix \o <<"z">>)
    /\ resp.op = "mark-read"
    /\ resp.status = 401
    /\ PrimaryKey(Uuid(1)) \in DOMAIN kv
    /\ ~kv[PrimaryKey(Uuid(1))].rec.read

----------------------------------------------------------------------------
(* Notification records under notify-donors and concurrent mark-read *)

\* the record stored under a primary key keeps everything but its read flag
SameButRead(old, new) == [new EXCEPT !.read = old.read] = old

\* C16: whatever notify-donors and mark-read invocations do, two mark-read
\* invocations on one notification at a time included, a primary record keeps
\* id, donor_id, request_id, message, urgency and created_at, its read flag
\* only goes from false to true, no primary or index record is removed, and a
\* mark-read of an identifier without primary record answers 404 and writes
\* nothing.
C16_RecordsOnlyGainRead ==
    [][/\ \A k \in DOMAIN kv :
            /\ k \in DOMAIN kv'
            /\ IsIndexKey(k) => kv'[k] = kv[k]
            /\ IsPrimaryKey(k) =>
                  /\ kv'[k].kind = kv[k].kind
                  /\ SameButRead(kv[k].rec, kv'[k].rec)
                  /\ kv[k].rec.read => kv'[k].rec.read
       /\ (resp'.op = "mark" /\ PrimaryKey(resp'.notificationId) \notin DOMAIN kv) =>
            /\ resp'.status = 404
            /\ kv' = kv
            /\ markCall' = markCall
            /\ otherMarkCall' = otherMarkCall
       /\ (resp'.op = "mark" /\ resp'.status = 404) =>
            PrimaryKey(resp'.notificationId) \notin DOMAIN kv]_vars

\* one invocation has just written the flag of a notification while the other
\* still holds the copy it read of the same notification
C16_Witness ==
    /\ resp = MarkRespFor(Uuid(1), 200)
    /\ markCall.pc = "writing"
    /\ markCall.notificationId = Uuid(1)
    /\ kv[PrimaryKey(Uuid(1))].rec.read
    /\ IndexKeysOf(kv) # {}

----------------------------------------------------------------------------
(* Blood request status *)

\* the profile row of whoever made the call of this step
ActorProfile == profileTable[resp'.caller]

LeavesPending(id) ==
    /\ blood_requests[id].exists
    /\ blood_requests[id].status = "pending_verification"
    /\ blood_requests'[id].status # "pending_verification"

\* C14: a blood request leaves pending_verification only by a call of a
\* hospital_admin whose hospital_id is the request's hospital_id, or of a
\* platform_admin; nothing an individual (the requester included) or the
\* admin of another hospital can do under the row policies and the verify
\* function changes it.
C14_OnlyAdminsLeavePending ==
    [][\A id \in RequestIds :
          LeavesPending(id) =>
              /\ resp'.caller \in DOMAIN profileTable
              /\ ~ActorProfile.isNull
              /\ \/ ActorProfile.role = "platform_admin"
                 \/ /\ ActorProfile.role = "hospital_admin"
                    /\ ActorProfile.hospital_id =
                           JsString(blood_requests[id].hospital_id)]_vars

\* C15: verify-blood-request only ever moves a request from
\* pending_verification to active: after a 200 the request is active, a
\* request that is active, fulfilled or cancelled is not moved, and a call
\* answered 401, 403, 400 or 404 changes no request.
C15_VerifyOnlyActivatesPending ==
    [][resp'.op = "verify" =>
          /\ resp'.status \in {401, 403, 400, 404} =>
                blood_requests' = blood_requests
          /\ \A id \in RequestIds :
                blood_requests'[id] # blood_requests[id] =>
                    /\ blood_requests[id].status = "pending_verification"
                    /\ blood_requests'[id] =
                          [blood_requests[id] EXCEPT !.status = "active"]
          /\ resp'.status = 200 =>
                /\ resp'.notificationId \in RequestIds
                /\ blood_requests'[resp'.notificationId].status = "active"]_vars

----------------------------------------------------------------------------
(* Hospital applications *)

HospitalChanged(id) == hospitals[id].exists /\ hospitals'[id] # hospitals[id]

\* C17: a hospital row created through the application form has status
\* pending_review; afterwards its status only goes from pending_review to
\* approved, or the row is deleted, and the approve and reject requests
\* take effect only for an acting user whose profile role is platform_admin
\* at that moment, never for a signed-out user, an individual or a hospital
\* admin.
C17_HospitalLifecycle ==
    [][\A id \in HospitalRowIds :
          /\ (~hospitals[id].exists /\ hospitals'[id].exists) =>
                hospitals'[id].status = "pending_review"
          /\ HospitalChanged(id) =>
                /\ \/ ~hospitals'[id].exists
                   \/ /\ hospitals[id].status = "pending_review"
                      /\ hospitals'[id] =
                            [hospitals[id] EXCEPT !.status = "approved"]
                /\ resp'.caller \in DOMAIN profileTable
                /\ ~ActorProfile.isNull
                /\ ActorProfile.role = "platform_admin"]_vars

\* the form has just sent an insert whose trimmed license number is that of
\* a row of the table
DuplicateSubmitted ==
    /\ resp'.op = "apply"
    /\ resp'.status # 0
    /\ LicenseTaken(hospitals, Trim(hospitalForm'.license_number))

\* C18: no two hospital rows share a license number, and a submission of
\* the form whose trimmed license number is that of an existing row inserts
\* no row, leaves the table as it was and leaves the form not submitted,
\* showing 'A hospital with this license number already exists'.
C18_DuplicateLicenseRefused ==
    [][/\ \A a, b \in HospitalRowIds :
            (/\ hospitals'[a].exists
             /\ hospitals'[b].exists
             /\ hospitals'[a].license_number = hospitals'[b].license_number)
                => a = b
       /\ DuplicateSubmitted =>
            /\ hospitals' = hospitals
            /\ ~hospitalForm'.submitted
            /\ hospitalForm'.error = LicenseExistsMessage]_vars

----------------------------------------------------------------------------
(* Profiles of signed-in users *)

\* C19: when a sign-up or sign-in flow has ended and left the user signed
\* in, the profiles table holds the row of that user; a row the flow
\* inserts has profile_complete false, blood_group 'Not Set' and
\* availability_status 'Available'; a flow that could neither read nor
\* create the row ends signed out.
C19_SignedInHasProfile ==
    /\ login.session # NoUser => ~profileTable[login.session].isNull
    /\ login.inserted.sent =>
          /\ ~login.inserted.profile_complete
          /\ login.inserted.blood_group = "Not Set"
          /\ login.inserted.availability_status = "Available"

----------------------------------------------------------------------------
(* Classification of setup failures *)

\* the probes whose answer checkDatabaseSetup has looked at
ProbesSeen ==
    {setupCheck.probes[t] : t \in ProbedTables(setupCheck.probes)}

\* an answer that says the table is absent
TableAbsent(probe) ==
    /\ probe.isError
    /\ \/ probe.code = "PGRST116"
       \/ "not find the table" \in probe.message
       \/ {"relation", "does not exist"} \subseteq probe.message

\* an answer that says a policy recurses
PolicyRecursion(probe) ==
    /\ probe.isError
    /\ \/ probe.code = "42P17"
       \/ "infinite recursion detected in policy" \in probe.message

AbsentSeen == \E probe \in ProbesSeen : TableAbsent(probe)

RecursionSeen ==
    \E probe \in ProbesSeen : PolicyRecursion(probe) /\ ~TableAbsent(probe)

SetupScreens == {"SetupInstructions", "Database Issues Detected"}

RendersSetupScreen ==
    setupCheck.dbStatus.error \in {"DATABASE_NOT_SETUP", "RLS_RECURSION_ERROR"} =>
        Renders(setupCheck) \in SetupScreens

----------------------------------------------------------------------------
(* Verification by the hospital *)

\* the invocation in flight is by an admin of the hospital of request id,
\* who is not its requester, and the request awaits verification
HospitalVerifies(id) ==
    /\ verifyCall.request_id = id
    /\ blood_requests[id].exists
    /\ blood_requests[id].status = "pending_verification"
    /\ JsString(blood_requests[id].hospital_id) = verifyCall.hospital_id
    /\ blood_requests[id].requester_id # verifyCall.user

\* C21: when a hospital_admin whose hospital_id is that of a request in
\* pending_verification, and who is not its requester, calls
\* verify-blood-request with the id of the request, the function finds the
\* request and, unless the update reports an error, answers 200 with the
\* request active.
C21_HospitalCanVerify ==
    [][\A id \in RequestIds :
          /\ (verifyCall.pc = "select" /\ HospitalVerifies(id)) =>
                (resp'.op = "verify" => resp'.status # 404)
          /\ (verifyCall.pc = "update" /\ resp'.op = "verify"
                /\ resp'.status = 200 /\ verifyCall.request_id = id) =>
                blood_requests'[id].status = "active"]_vars

----------------------------------------------------------------------------
(* Index records and their primaries *)

\* the index records of the store whose primary record is absent
DanglingIndexKeys(store) ==
    {k \in IndexKeysOf(store) : PrimaryKey(store[k].ref) \notin DOMAIN store}

\* the primary records of the store that no index record refers to
UnindexedPrimaryKeys(store) ==
    {k \in PrimaryKeysOf(store) :
        \A j \in IndexKeysOf(store) : PrimaryKey(store[j].ref) # k}

\* C22: in every reachable state of the store, with notify-donors calls
\* interleaving and failing between any two writes, every index record
\* refers to an existing primary record, so a scan of any donor's prefix in
\* any order resolves every entry and the reader drops none.
C22_IndexRefersToPrimary ==
    /\ DanglingIndexKeys(kv) = {}
    /\ \A donorId \in DonorIdStrings :
         \A entries \in ScanOrders(kvGetByPrefix(kv, DonorPrefix(donorId))) :
             Len(Resolve(kv, entries)) = Len(entries)

\* a call that failed after its primary write left a primary record without
\* its index record, while another call's index record resolves
C22_Witness ==
    /\ \E c \in 1..MaxNotifyCalls :
          notifyCalls[c].pc = "done" /\ notifyCalls[c].status = 500
              /\ notifyCalls[c].stage = "index"
    /\ UnindexedPrimaryKeys(kv) # {}
    /\ IndexKeysOf(kv) # {}

----------------------------------------------------------------------------
(* The two implementations of the authorization helpers *)

\* what the implementation that was not called returns for the same input
OtherImplementationReturns ==
    LET viaProvider == authCall.impl = "utils"
    IN  CASE authCall.fn = "hasRole" ->
               LET role == CHOOSE r \in authCall.roles : TRUE
               IN  IF viaProvider THEN ProviderHasRole(authContext, role)
                   ELSE UtilsHasRole(authContext, role)
          [] authCall.fn = "hasAnyRole" ->
               IF viaProvider THEN ProviderHasAnyRole(authContext, authCall.roles)
               ELSE UtilsHasAnyRole(authContext, authCall.roles)
          [] authCall.fn = "canAccessHospital" ->
               IF viaProvider THEN ProviderCanAccessHospital(authContext, hospitalArg)
               ELSE UtilsCanAccessHospital(authContext, hospitalArg)
          [] authCall.fn = "canManageBloodRequests" ->
               IF viaProvider
               THEN ProviderCanManageBloodRequests(authContext, hospitalArg)
               ELSE UtilsCanManageBloodRequests(authContext, hospitalArg)

\* C23: hasRole, hasAnyRole, canAccessHospital and canManageBloodRequests
\* of AuthProvider and of the authorization utilities return the same
\* boolean for every input.
C23_HelpersAgree ==
    authCall.fn # "" => authCall.ret = OtherImplementationReturns

----------------------------------------------------------------------------
(* AuthProvider properties *)

NoFetchInFlight == \A u \in UserIds : provider.fetches[u] = 0

\* C24: whenever no profile fetch is in flight, user = null implies
\* profile = null and a non-null profile belongs to the current user: a
\* fetchProfile answer arriving after a sign-out or a switch of user never
\* leaves the previous user's profile in the context.
C24_ProfileBelongsToUser ==
    NoFetchInFlight =>
        /\ provider.user = NoUser => provider.profile = NoUser
        /\ provider.profile # NoUser => provider.profile = provider.user

\* C25: loading starts true, becomes false after mount whatever the outcome
\* (no session, profile found, fetch error, exception) when every call
\* settles, and once false is never set back to true.
C25_LoadingEnds ==
    /\ provider.loading
    /\ <>(~provider.loading)
    /\ [][~provider.loading => ~provider'.loading]_vars

\* the mount found a session and its profile fetch failed: loading is over
\* with a user and no profile
C25_Witness ==
    /\ ~provider.pending
    /\ provider.user # NoUser
    /\ provider.profile = NoUser
    /\ NoFetchInFlight
    /\ ~provider.loading

----------------------------------------------------------------------------
(* NotificationSystem properties *)

\* C26: under every interleaving of timer fetches, clicks and mark-read
\* answers, unreadCount is never negative and equals the number of
\* notifications shown with read false.
C26_UnreadCountMatches ==
    /\ widget.unreadCount >= 0
    /\ widget.unreadCount = UnreadOf(widget.notifications)

----------------------------------------------------------------------------
(* fetchBloodRequests properties *)

\* C27: for every filter combination a hospital_admin receives only
\* requests of their own hospital (an empty list, with no query, when they
\* have no affiliation), an individual receives only their own requests
\* when a requesterId filter is given and otherwise only active requests,
\* and a query without a role condition is run only for a platform_admin.
C27_ListRestrictedByRole ==
    listing.called =>
        LET profile == authContext.profile
        IN  /\ (~profile.isNull /\ profile.role = "hospital_admin") =>
                   IF ValueTruthy(profile.hospital_id)
                   THEN \A r \in listing.data :
                           r.hospital_id = profile.hospital_id.s
                   ELSE listing.data = {} /\ ~listing.queried
            /\ (~profile.isNull /\ profile.role = "individual") =>
                   IF ValueTruthy(listing.filters.requesterId)
                   THEN \A r \in listing.data :
                           authContext.user.t # "null"
                               /\ r.requester_id = authContext.user.s
                   ELSE \A r \in listing.data : r.status = "active"
            /\ (listing.queried /\ listing.roleConditions = {}) =>
                   (~profile.isNull /\ profile.role = "platform_admin")

----------------------------------------------------------------------------
(* checkDatabaseSetup results *)

\* C28: checkDatabaseSetup returns isSetup = true only if all four table
\* probes completed without any error and without timing out, and every
\* result with isSetup = true has an empty missingTables list and no error.
C28_SetupOnlyWhenAllProbesPass ==
    (~setupCheck.dbStatus.isNull /\ setupCheck.dbStatus.isSetup) =>
        /\ \A i \in 1..Len(requiredTables) :
               setupCheck.probes[requiredTables[i]] = NoProbeError
        /\ setupCheck.dbStatus.missingTables = <<>>
        /\ setupCheck.dbStatus.error = ""

----------------------------------------------------------------------------
(* Mark-read and the caller *)

\* C29: PUT /notifications/:notification_id/read makes no ownership check:
\* for any authenticated caller and any existing notification, another
\* donor's included, the call is not refused on the caller's account: it
\* answers 404 only when the notification does not exist and otherwise
\* succeeds with the stored notification read (500 on a store failure).
C29_MarkReadForAnyCaller ==
    (httpRequest.route = "mark-read" /\ resp.op = "mark") =>
        /\ resp.status \in {200, 404, 500}
        /\ resp.status = 404 => PrimaryKey(resp.notificationId) \notin DOMAIN kv
        /\ resp.status # 404 => PrimaryKey(resp.notificationId) \in DOMAIN kv
        /\ resp.status = 200 => kv[PrimaryKey(resp.notificationId)].rec.read

\* a caller marked another donor's notification read
C29_Witness ==
    /\ httpRequest.route = "mark-read"
    /\ resp.op = "mark"
    /\ resp.status = 200
    /\ PrimaryKey(resp.notificationId) \in DOMAIN kv
    /\ kv[PrimaryKey(resp.notificationId)].rec.donor_id # RequestUser
    /\ kv[PrimaryKey(resp.notificationId)].rec.read

----------------------------------------------------------------------------
(* Sign-in on the page of another role *)

\* the sign-in under way, or over, is of an account whose profile role is
\* not the role of the Login page it was submitted on
RoleMismatch ==
    /\ signInFlow.user # NoUser
    /\ profileTable[signInFlow.user].role # signInFlow.role

\* C30: a sign-in on the Login page of role R with the valid credentials
\* of an account whose profile role is not R navigates to no portal page
\* at any point, and when its role check has answered it ends signed out
\* with the error 'This account is not authorized for ...'.
C30_MismatchNeverEntersPortal ==
    RoleMismatch =>
        /\ signInFlow.page \notin PortalPages
        /\ (signInFlow.pc = "done" /\ signInFlow.error # VerifyRoleMessage) =>
               /\ signInFlow.error = NotAuthorizedMessage
               /\ provider.session = NoUser

====
